---- MODULE Spec2Model ----
(***************************************************************************)
(* Verification model of turkis' monitor control plane:                    *)
(*   - the label model (internal/config/labels.go),                        *)
(*   - the deployment aggregation (GetDeploymentsFromRunningContainers),   *)
(*   - the certificate notifier (certificates/haproxy.go),                 *)
(*   - the certificate manager (certificates/manager.go),                  *)
(*   - the monitor event loop and blue-green cutover (cmd/monitor/main.go, *)
(*     monitor/haproxy/configure.go).                                      *)
(* Every subsystem has its own specification over one variable list; a     *)
(* specification leaves the variables of the other subsystems untouched.   *)
(***************************************************************************)
EXTENDS Integers, Sequences, FiniteSets, TLC

VARIABLES
    \* ---- label model ----
    d,            \* the descriptor handed to ToLabels
    labels,       \* the label map ToLabels produced (key -> value)
    cl,           \* the ContainerLabels being built by ParseContainerLabels
    domainMap,    \* ParseContainerLabels' domainMap (index -> Domain)
    remaining,    \* keys the `range labels` loop has not visited yet
    lpc,          \* position in encode/parse
    \* ---- deployment aggregation ----
    containers,      \* what ContainerList/ContainerInspect return, in list order
    cidx,            \* index of the next container of the loop
    deploymentsMap,  \* app name -> Deployment
    deployments,     \* the returned slice, in the order of the map iteration
    config,          \* the text CreateConfig returns, as a sequence of lines
    dpc,
    \* ---- certificate notifier (one NotifyCertChange call) ----
    hDomain,      \* the domain argument
    pemOnDisk,    \* whether <certDir>/<domain>.pem exists
    ncmd,         \* index i of the command of the loop (1-based)
    nphase,       \* position inside the call
    dialed,       \* connections opened on the admin socket so far
    openConns,    \* connections not closed yet
    sent,         \* commands written to the socket: [conn, cmd], in order
    outcomes,     \* what happened to each step (what the proxy/socket did)
    nret,         \* the call's return value: "" while running, "nil", "err"
    \* ---- certificate manager ----
    certManager,  \* main's certManager: "nil" or "started"
    mDomains,     \* the names in m.domains
    certFiles,    \* domain -> the files of it in CertDir
    daysLeft,     \* domain -> days until NotAfter of the certificate in its .crt
    lastObtain,   \* domain -> how its latest obtainCertificate ended
    ex,           \* the renewal loop (0) and AddDomain's goroutines
    rqueue,       \* the domains checkRenewals has still to visit
    mCancelled,   \* m.ctx is cancelled
    socketOpened, \* a connection to the admin socket was dialled
    \* ---- monitor ----
    dryRun,       \* --dry-run / DRY_RUN
    noTLS,        \* --no-tls / NO_TLS
    labelScheme,  \* which labels the containers carry
    replicas,     \* the containers are instances of one deployment
    loop,         \* the event loop: "running", "exited", "panicked"
    cstate,       \* container -> the last event handled for it
    providerContainers,  \* the keys of domainProvider.containers
    domainWatcher,       \* main's domainWatcher: "nil" or "set"
    knownDomains,        \* dw.knownDomains
    sync,         \* the SyncDomains call holding domainMutex
    syncPending,  \* a `go domainWatcher.SyncDomains()` waits to run
    hostsMap,     \* the proxy's hosts.map: domain -> backend
    backends,     \* the proxy's backends
    bg,           \* container -> the blue-green goroutine of its start
    deploymentRegistry,  \* app name -> deployment ID
    \* ---- the deployer: PruneOldContainers ----
    appContainers,   \* the app's containers Docker holds, in `docker ps -a` order
    newContainerID,  \* the full ID `docker run -d` printed
    keepCount,       \* appConfig.KeepOldContainers
    pruneInfos,      \* PruneOldContainers' `containers []ContainerInfo`
    oldContainers,   \* its oldContainers, sorted
    rmTried,         \* the IDs `docker rm` was run on
    pidx,            \* index of the loop at work
    ppc,
    \* ---- init command: copyConfigTemplateFiles ----
    haproxyCfgOnDisk, \* contents of haproxy.cfg, as a sequence of sections
    preHAProxyCfg,    \* haproxy.cfg as it was before the command ran
    configOnDisk,     \* contents of apps.yml
    written,          \* sections the current os.WriteFile has written
    ipc,
    \* ---- listenForDockerEvents ----
    listenPc,       \* "select", "sleep" or "returned"
    subscriptions,  \* calls of dockerClient.Events so far
    eventsChan,     \* the events sent to eventsChan so far
    errorsChan,     \* the errors sent to errorsChan so far
    \* ---- haproxy.Client.SendCommand ----
    sendCommand,     \* the command of the call
    clientDryRun,    \* c.dryRun
    proxyBehaviour,  \* what the peer does with the connection
    sendPc,          \* "call", "write", "read" or "returned"
    sendRet,         \* the (response, error) returned
    \* ---- KeyManager.LoadOrCreateKey ----
    keyOnDisk,   \* the key file of the email
    generated,   \* keys generated so far
    keyCalls,    \* caller -> position and result of its call
    \* ---- the locks of the certificate subsystem ----
    lk,                \* goroutine -> operation, position, calls left
    watcherMutex,      \* holders of DomainWatcher.domainMutex
    containerMutex,    \* DomainProviderImpl.containerMutex
    managerMutex,      \* Manager.domainMutex
    obtainGoroutines   \* goroutines started by AddDomain, still running

labelVars == <<d, labels, cl, domainMap, remaining, lpc>>
deployVars == <<containers, cidx, deploymentsMap, deployments, config, dpc>>
notifyVars ==
    <<hDomain, pemOnDisk, ncmd, nphase, dialed, openConns, sent, outcomes, nret>>
certVars ==
    <<certManager, mDomains, certFiles, daysLeft, lastObtain, ex, rqueue, mCancelled, socketOpened>>
monVars ==
    <<dryRun, noTLS, labelScheme, replicas, loop, cstate, providerContainers,
      domainWatcher, knownDomains, sync, syncPending, hostsMap, backends, bg,
      deploymentRegistry>>
pruneVars ==
    <<appContainers, newContainerID, keepCount, pruneInfos, oldContainers,
      rmTried, pidx, ppc>>
initVars == <<haproxyCfgOnDisk, preHAProxyCfg, configOnDisk, written, ipc>>
coreVars == <<labelVars, deployVars, notifyVars, certVars, monVars>>
listenVars == <<listenPc, subscriptions, eventsChan, errorsChan>>
sendVars == <<sendCommand, clientDryRun, proxyBehaviour, sendPc, sendRet>>
keyVars == <<keyOnDisk, generated, keyCalls>>
lockVars ==
    <<lk, watcherMutex, containerMutex, managerMutex, obtainGoroutines>>
lateVars == <<sendVars, keyVars, lockVars>>
toolVars == <<pruneVars, initVars, listenVars, lateVars>>
vars == <<coreVars, toolVars>>

NoValue == "<none>"

RECURSIVE SeqToSet(_)
SeqToSet(s) ==
    IF s = <<>> THEN {} ELSE {Head(s)} \cup SeqToSet(Tail(s))

SetMin(S) == CHOOSE x \in S : \A y \in S : x <= y

\* sort.Ints over the keys of a map: the ascending sequence of a set of ints
RECURSIVE SortInts(_)
SortInts(S) ==
    IF S = {} THEN <<>> ELSE <<SetMin(S)>> \o SortInts(S \ {SetMin(S)})

(***************************************************************************)
(* Label model                                                             *)
(***************************************************************************)

\* ---- bounds and value universes ----
MaxDomains == 2
MaxAliases == 2

CanonicalHosts == {"foo.example.com", "bar.example.com"}
AliasHosts == {"www.foo.example.com", "alt.example.com"}

\* label keys are sequences of string pieces: a literal prefix, decimal
\* digits, the ".alias." infix
LabelAppName == <<"turkis.appName">>
LabelDeploymentID == <<"turkis.deployment-id">>
LabelIgnore == <<"turkis.ignore">>
LabelHealthCheckPath == <<"turkis.health-check-path">>
LabelACMEEmail == <<"turkis.acme.email">>
LabelPort == <<"turkis.port">>
DomainPrefix == "turkis.domain."
AliasInfix == ".alias."

DefaultContainerPort == "80"
DefaultHealthCheckPath == "/"

Digits == <<"0", "1", "2", "3", "4", "5", "6", "7", "8", "9">>
IsDigit(c) == \E i \in 1..10 : Digits[i] = c
DigitVal(c) == (CHOOSE i \in 1..10 : Digits[i] = c) - 1

\* fmt's %d verb, writing: the decimal digits of a non-negative int
RECURSIVE FormatInt(_)
FormatInt(n) ==
    IF n < 10 THEN <<Digits[n + 1]>>
    ELSE FormatInt(n \div 10) \o <<Digits[(n % 10) + 1]>>

\* fmt's %d verb, scanning: the longest run of digits at the front of s
RECURSIVE DigitRun(_)
DigitRun(s) ==
    IF s # <<>> /\ IsDigit(Head(s)) THEN <<Head(s)>> \o DigitRun(Tail(s))
    ELSE <<>>

RECURSIVE DigitsToInt(_, _)
DigitsToInt(s, acc) ==
    IF s = <<>> THEN acc ELSE DigitsToInt(Tail(s), acc * 10 + DigitVal(Head(s)))

Drop(s, n) == SubSeq(s, n + 1, Len(s))

\* fmt.Sprintf(LabelDomainCanonical, i) and fmt.Sprintf(LabelDomainAlias, i, j)
CanonicalKey(i) == <<DomainPrefix>> \o FormatInt(i)
AliasKey(i, j) == <<DomainPrefix>> \o FormatInt(i) \o <<AliasInfix>> \o FormatInt(j)

\* strings.HasPrefix(key, "turkis.domain.") and strings.Contains(key, ".alias.")
HasDomainPrefix(key) == key # <<>> /\ Head(key) = DomainPrefix
ContainsAlias(key) == \E i \in 1..Len(key) : key[i] = AliasInfix

\* fmt.Sscanf(key, LabelDomainCanonical, &domainIdx): ok needs the prefix and
\* at least one digit; input after the number is not looked at
ScanCanonical(key) ==
    LET run == DigitRun(Tail(key))
    IN  IF HasDomainPrefix(key) /\ run # <<>>
        THEN [ok |-> TRUE, domainIdx |-> DigitsToInt(run, 0)]
        ELSE [ok |-> FALSE, domainIdx |-> 0]

\* fmt.Sscanf(key, LabelDomainAlias, &domainIdx, &aliasIdx)
ScanAlias(key) ==
    LET run1 == DigitRun(Tail(key))
        rest == Drop(Tail(key), Len(run1))
        run2 == IF rest = <<>> THEN <<>> ELSE DigitRun(Tail(rest))
    IN  IF /\ HasDomainPrefix(key) /\ run1 # <<>>
           /\ rest # <<>> /\ Head(rest) = AliasInfix /\ run2 # <<>>
        THEN [ok |-> TRUE, domainIdx |-> DigitsToInt(run1, 0),
              aliasIdx |-> DigitsToInt(run2, 0)]
        ELSE [ok |-> FALSE, domainIdx |-> 0, aliasIdx |-> 0]

\* strconv.FormatBool / strconv.ParseBool
FormatBool(b) == IF b THEN "true" ELSE "false"
ParseBool(v) ==
    IF v \in {"1", "t", "T", "TRUE", "true", "True"}
    THEN [ok |-> TRUE, b |-> TRUE]
    ELSE IF v \in {"0", "f", "F", "FALSE", "false", "False"}
    THEN [ok |-> TRUE, b |-> FALSE]
    ELSE [ok |-> FALSE, b |-> FALSE]

\* helpers.IsValidEmail: an RFC 5322 address
ValidEmails == {"a@b.c"}
IsValidEmail(e) == e \in ValidEmails

\* (cl *ContainerLabels).IsValid: "" is success, anything else the error
IsValid(x) ==
    IF x.AppName = "" THEN "appName is required"
    ELSE IF x.DeploymentID = "" THEN "deploymentID is required"
    ELSE IF x.ACMEEmail = "" THEN "ACME email is required"
    ELSE IF ~IsValidEmail(x.ACMEEmail) THEN "ACME email is not valid"
    ELSE IF x.Port = "" THEN "port is required"
    ELSE IF Len(x.Domains) = 0 THEN "at least one domain is required"
    ELSE ""

\* a Go map read: the zero value when the key is absent
Get(m, key) == IF key \in DOMAIN m THEN m[key] ELSE ""

\* the map a descriptor's domains add to the labels (ToLabels' loop)
DomainLabelKeys(x) ==
    {CanonicalKey(i - 1) : i \in 1..Len(x.Domains)}
    \cup UNION {{AliasKey(i - 1, j - 1) : j \in 1..Len(x.Domains[i].Aliases)} :
                    i \in 1..Len(x.Domains)}

DomainLabelValue(x, key) ==
    IF ContainsAlias(key)
    THEN x.Domains[ScanAlias(key).domainIdx + 1].Aliases[ScanAlias(key).aliasIdx + 1]
    ELSE x.Domains[ScanCanonical(key).domainIdx + 1].Canonical

\* (cl *ContainerLabels).ToLabels
ToLabels(x) ==
    LET fixed == {LabelAppName, LabelDeploymentID, LabelIgnore,
                  LabelHealthCheckPath, LabelPort, LabelACMEEmail}
    IN  [key \in fixed \cup DomainLabelKeys(x) |->
            IF key = LabelAppName THEN x.AppName
            ELSE IF key = LabelDeploymentID THEN x.DeploymentID
            ELSE IF key = LabelIgnore THEN FormatBool(x.Ignore)
            ELSE IF key = LabelHealthCheckPath THEN x.HealthCheckPath
            ELSE IF key = LabelPort THEN x.Port
            ELSE IF key = LabelACMEEmail THEN x.ACMEEmail
            ELSE DomainLabelValue(x, key)]

\* getOrCreateDomain
GetOrCreateDomain(dm, i) ==
    IF i \in DOMAIN dm THEN dm
    ELSE [k \in DOMAIN dm \cup {i} |->
            IF k = i THEN [Canonical |-> "", Aliases |-> <<>>] ELSE dm[k]]

\* one iteration of `for key, value := range labels`
VisitLabel(dm, key, value) ==
    IF ~HasDomainPrefix(key) THEN dm
    ELSE IF ContainsAlias(key)
    THEN LET sc == ScanAlias(key)
             dm2 == GetOrCreateDomain(dm, sc.domainIdx)
         IN  IF ~sc.ok THEN dm
             ELSE [dm2 EXCEPT ![sc.domainIdx].Aliases = Append(@, value)]
    ELSE LET sc == ScanCanonical(key)
             dm2 == GetOrCreateDomain(dm, sc.domainIdx)
         IN  IF ~sc.ok THEN dm
             ELSE [dm2 EXCEPT ![sc.domainIdx].Canonical = value]

\* the sorted slice of domains built from domainMap
BuildDomains(dm) ==
    LET indices == SortInts(DOMAIN dm)
    IN  [k \in 1..Len(indices) |-> dm[indices[k]]]

\* ---- descriptors the encode/parse round trip is run on ----
AliasLists ==
    UNION {[1..n -> AliasHosts] : n \in 0..MaxAliases}
DomainValues == [Canonical : CanonicalHosts, Aliases : AliasLists]
DomainLists == UNION {[1..n -> DomainValues] : n \in 0..MaxDomains}

Descriptors ==
    [AppName : {"", "app"},
     DeploymentID : {"", "20240101000000"},
     Ignore : BOOLEAN,
     HealthCheckPath : {"/health"},
     ACMEEmail : {"", "not-an-email", "a@b.c"},
     Port : {"", "8080"},
     Domains : DomainLists]

EmptyCL ==
    [AppName |-> "", DeploymentID |-> "", Ignore |-> FALSE, HealthCheckPath |-> "",
     ACMEEmail |-> "", Port |-> "", Domains |-> <<>>]
EmptyMap == [k \in {} |-> ""]

LabelInit ==
    /\ d \in {x \in Descriptors : IsValid(x) = ""}
    /\ labels = EmptyMap
    /\ cl = EmptyCL
    /\ domainMap = EmptyMap
    /\ remaining = {}
    /\ lpc = "encode"

\* ---- the deployer's labels: ValidateConfigFile, then runContainer

AppConfigs ==
    [Name : {"", "app"},
     Domains : DomainLists,
     HealthCheckPath : {"/health"},
     ACMEEmail : {"", "a@b.c"}]

\* ValidateConfigFile, for one app: name, domains and ACME email
ValidateConfigFile(app) ==
    /\ app.Name # ""
    /\ Len(app.Domains) > 0
    /\ app.ACMEEmail # ""
    /\ IsValidEmail(app.ACMEEmail)

\* the ContainerLabels runContainer fills in before ToLabels
RunContainerLabels(app) ==
    [AppName |-> app.Name,
     DeploymentID |-> "20240101000000",
     Ignore |-> FALSE,
     HealthCheckPath |-> app.HealthCheckPath,
     ACMEEmail |-> "",
     Port |-> "",
     Domains |-> app.Domains]

RunContainerInit ==
    /\ \E app \in AppConfigs :
          /\ ValidateConfigFile(app)
          /\ d = RunContainerLabels(app)
    /\ labels = EmptyMap
    /\ cl = EmptyCL
    /\ domainMap = EmptyMap
    /\ remaining = {}
    /\ lpc = "encode"

LabelIdle ==
    /\ d = EmptyCL
    /\ labels = EmptyMap
    /\ cl = EmptyCL
    /\ domainMap = EmptyMap
    /\ remaining = {}
    /\ lpc = "idle"

\* d.ToLabels()
Encode ==
    /\ lpc = "encode"
    /\ labels' = ToLabels(d)
    /\ lpc' = "parse"
    /\ UNCHANGED <<d, cl, domainMap, remaining, deployVars, notifyVars, certVars, monVars, toolVars>>

\* ParseContainerLabels up to the `range labels` loop
ParseStart ==
    /\ lpc = "parse"
    /\ LET ign == ParseBool(Get(labels, LabelIgnore))
       IN  IF LabelIgnore \in DOMAIN labels /\ ~ign.ok
           THEN /\ lpc' = "error"
                /\ UNCHANGED <<cl, remaining>>
           ELSE /\ cl' = [AppName |-> Get(labels, LabelAppName),
                          DeploymentID |-> Get(labels, LabelDeploymentID),
                          ACMEEmail |-> Get(labels, LabelACMEEmail),
                          Ignore |-> (LabelIgnore \in DOMAIN labels /\ ign.b),
                          Port |-> IF LabelPort \in DOMAIN labels
                                   THEN labels[LabelPort] ELSE DefaultContainerPort,
                          HealthCheckPath |->
                                   IF LabelHealthCheckPath \in DOMAIN labels
                                   THEN labels[LabelHealthCheckPath]
                                   ELSE DefaultHealthCheckPath,
                          Domains |-> <<>>]
                \* an iteration over any other key `continue`s at once and
                \* commutes with the rest, so only the domain keys are left
                \* to the loop
                /\ remaining' = {key \in DOMAIN labels : HasDomainPrefix(key)}
                /\ lpc' = "range"
    /\ domainMap' = EmptyMap
    /\ UNCHANGED <<d, labels, deployVars, notifyVars, certVars, monVars, toolVars>>

\* one iteration of the loop over the label map; Go fixes no iteration order
ParseRange ==
    /\ lpc = "range"
    /\ \E key \in remaining :
        /\ domainMap' = VisitLabel(domainMap, key, labels[key])
        /\ remaining' = remaining \ {key}
    /\ UNCHANGED <<d, labels, cl, lpc, deployVars, notifyVars, certVars, monVars, toolVars>>

\* after the loop: sort the indices, build cl.Domains, validate
ParseFinish ==
    /\ lpc = "range"
    /\ remaining = {}
    /\ LET done == [cl EXCEPT !.Domains = BuildDomains(domainMap)]
       IN  /\ cl' = done
           /\ lpc' = IF IsValid(done) = "" THEN "parsed" ELSE "error"
    /\ UNCHANGED <<d, labels, domainMap, remaining, deployVars, notifyVars, certVars, monVars, toolVars>>

LabelNext == Encode \/ ParseStart \/ ParseRange \/ ParseFinish

\* ---- ParseContainerLabels on the labels of any container

\* the domain keys a container may carry
RawDomainKeys ==
    {CanonicalKey(i) : i \in 0..(MaxDomains - 1)}
    \cup {AliasKey(i, j) : i \in 0..(MaxDomains - 1), j \in 0..(MaxAliases - 1)}

\* label maps with valid fixed labels and any subset of the domain keys
RawLabelMaps ==
    LET fixed == {LabelAppName, LabelDeploymentID, LabelACMEEmail}
    IN  {[key \in fixed \cup keys |->
             IF key = LabelAppName THEN "app"
             ELSE IF key = LabelDeploymentID THEN "20240101000000"
             ELSE IF key = LabelACMEEmail THEN "a@b.c"
             ELSE IF ContainsAlias(key) THEN "www.foo.example.com"
             ELSE "foo.example.com"] :
          keys \in SUBSET RawDomainKeys}

RawLabelsInit ==
    /\ d = EmptyCL
    /\ labels \in RawLabelMaps
    /\ cl = EmptyCL
    /\ domainMap = EmptyMap
    /\ remaining = {}
    /\ lpc = "parse"

RawLabelsNext == ParseStart \/ ParseRange \/ ParseFinish

(***************************************************************************)
(* Deployment aggregation: GetDeploymentsFromRunningContainers and         *)
(* CreateDeployments (the two functions have the same body)                *)
(***************************************************************************)

MaxContainers == 3

AppNames == {"A", "B"}
\* deployment IDs are strings of digits; Go compares them bytewise
DeploymentIDs == {<<"1">>, <<"1", "2">>, <<"2">>}
\* how the loop body ends for a container: all checks pass, ParseContainerLabels
\* (or ContainerInspect) fails, ContainerNetworkIP fails
ContainerKinds == {"ok", "parseerr", "noip"}

\* the domains a container's labels declare (ContainerLabels.Domains)
DomainChoices ==
    { <<[Canonical |-> "foo.example.com",
         Aliases |-> <<"www.foo.example.com">>]>>,
      <<[Canonical |-> "www.foo.example.com", Aliases |-> <<>>]>>,
      <<[Canonical |-> "bar.example.com",
         Aliases |-> <<"www.bar.example.com", "alt.example.com">>]>> }

\* A container that fails a check is skipped before its labels are used:
\* its ignore flag and domains are fixed, its ID is the greatest one.
ContainerValues ==
    [AppName : AppNames, DeploymentID : DeploymentIDs, Port : {"8080"},
     Ignore : BOOLEAN, Domains : DomainChoices, kind : {"ok"}]
    \cup
    [AppName : AppNames, DeploymentID : {<<"2">>}, Port : {"8080"},
     Ignore : {FALSE},
     Domains : {<<[Canonical |-> "www.foo.example.com", Aliases |-> <<>>]>>},
     kind : ContainerKinds \ {"ok"}]

\* labels, err := config.ParseContainerLabels(container.Config.Labels)
LabelsOf(c) ==
    [AppName |-> c.AppName, DeploymentID |-> c.DeploymentID,
     Ignore |-> c.Ignore, Domains |-> c.Domains]

\* the Go string comparison a < b
RECURSIVE LexLess(_, _)
LexLess(a, b) ==
    IF b = <<>> THEN FALSE
    ELSE IF a = <<>> THEN TRUE
    ELSE IF Head(a) = Head(b) THEN LexLess(Tail(a), Tail(b))
    ELSE DigitVal(Head(a)) < DigitVal(Head(b))

\* the container's IP on the shared network: one address per container
ContainerIP(i) == i

\* instance := DeploymentInstance{IP: ip, Port: port}
NewInstance(i, c) ==
    [IP |-> ContainerIP(i),
     Port |-> IF c.Port # "" THEN c.Port ELSE DefaultContainerPort]

\* `deployment.Labels.DeploymentID < labels.DeploymentID`: the newer one wins
MutIsNewerReversed(existing, new) == LexLess(new, existing)
IsNewer(existing, new) == LexLess(existing, new)

\* the entry stored when a newer deployment ID displaces the existing one
MutReplaceKeepingInstances(deployment, c, instance) ==
    [Labels |-> LabelsOf(c),
     Instances |-> Append(deployment.Instances, instance)]
ReplaceDeployment(deployment, c, instance) ==
    [Labels |-> LabelsOf(c), Instances |-> <<instance>>]

\* the body of the loop for one container that passed the checks
AddToDeployments(dm, i, c) ==
    LET instance == NewInstance(i, c)
        fresh == [Labels |-> LabelsOf(c), Instances |-> <<instance>>]
    IN  IF c.AppName \in DOMAIN dm
        THEN LET deployment == dm[c.AppName]
             IN  IF deployment.Labels.DeploymentID = c.DeploymentID
                 THEN [dm EXCEPT ![c.AppName].Instances = Append(@, instance)]
                 ELSE IF IsNewer(deployment.Labels.DeploymentID, c.DeploymentID)
                 THEN [dm EXCEPT ![c.AppName] = ReplaceDeployment(deployment, c, instance)]
                 ELSE dm
        ELSE [k \in DOMAIN dm \cup {c.AppName} |->
                IF k = c.AppName THEN fresh ELSE dm[k]]

\* ---- CreateConfig: the proxy configuration of a slice of deployments ----

\* strings.ReplaceAll(host, ".", "_")
ReplaceDots(host) ==
    CASE host = "foo.example.com" -> "foo_example_com"
      [] host = "www.foo.example.com" -> "www_foo_example_com"
      [] host = "bar.example.com" -> "bar_example_com"
      [] host = "www.bar.example.com" -> "www_bar_example_com"
      [] host = "alt.example.com" -> "alt_example_com"
      [] OTHER -> host

\* "\tacl <backend>_<key>_<suffix> hdr(host) -i <host>\n"
AclLine(backendName, host, suffix) ==
    <<"\tacl ", backendName, "_", ReplaceDots(host), suffix,
      " hdr(host) -i ", host>>

\* "\thttp-request redirect code 301 location https://<canonical>%[req.uri] if <acl>\n"
RedirectLine(canonical, backendName, host, suffix) ==
    <<"\thttp-request redirect code 301 location https://", canonical,
      "%[req.uri] if ", backendName, "_", ReplaceDots(host), suffix>>

\* the rules of the aliases of one domain, for either frontend
RECURSIVE AliasRules(_, _, _)
AliasRules(backendName, canonical, aliases) ==
    IF aliases = <<>> THEN <<>>
    ELSE (IF Head(aliases) # ""
          THEN <<AclLine(backendName, Head(aliases), "_alias"),
                 RedirectLine(canonical, backendName, Head(aliases), "_alias")>>
          ELSE <<>>)
         \o AliasRules(backendName, canonical, Tail(aliases))

\* what `for _, domain := range d.Labels.Domains` adds to httpsFrontend
RECURSIVE HttpsDomainRules(_, _)
HttpsDomainRules(backendName, domains) ==
    IF domains = <<>> THEN <<>>
    ELSE (IF Head(domains).Canonical # ""
          THEN <<AclLine(backendName, Head(domains).Canonical, "_canonical")>>
               \o AliasRules(backendName, Head(domains).Canonical,
                             Head(domains).Aliases)
          ELSE <<>>)
         \o HttpsDomainRules(backendName, Tail(domains))

\* what the same loop adds to httpFrontend
RECURSIVE HttpDomainRules(_, _)
HttpDomainRules(backendName, domains) ==
    IF domains = <<>> THEN <<>>
    ELSE (IF Head(domains).Canonical # ""
          THEN <<AclLine(backendName, Head(domains).Canonical, "_canonical"),
                 RedirectLine(Head(domains).Canonical, backendName,
                              Head(domains).Canonical, "_canonical")>>
               \o AliasRules(backendName, Head(domains).Canonical,
                             Head(domains).Aliases)
          ELSE <<>>)
         \o HttpDomainRules(backendName, Tail(domains))

\* strings.Join(canonicalACLs, " or ")
RECURSIVE CanonicalACLs(_, _)
CanonicalACLs(backendName, domains) ==
    IF domains = <<>> THEN <<>>
    ELSE (IF Head(domains).Canonical # ""
          THEN <<backendName, "_", ReplaceDots(Head(domains).Canonical),
                 "_canonical">>
               \o (IF CanonicalACLs(backendName, Tail(domains)) = <<>>
                   THEN <<>> ELSE <<" or ">>)
          ELSE <<>>)
         \o CanonicalACLs(backendName, Tail(domains))

UseBackendLine(backendName, domains) ==
    IF CanonicalACLs(backendName, domains) = <<>> THEN <<>>
    ELSE << <<"\tuse_backend ", backendName, " if ">>
            \o CanonicalACLs(backendName, domains) >>

RECURSIVE HttpsFrontend(_)
HttpsFrontend(deps) ==
    IF deps = <<>> THEN <<>>
    ELSE HttpsDomainRules(Head(deps).Labels.AppName, Head(deps).Labels.Domains)
         \o UseBackendLine(Head(deps).Labels.AppName, Head(deps).Labels.Domains)
         \o HttpsFrontend(Tail(deps))

RECURSIVE HttpFrontend(_)
HttpFrontend(deps) ==
    IF deps = <<>> THEN <<>>
    ELSE HttpDomainRules(Head(deps).Labels.AppName, Head(deps).Labels.Domains)
         \o HttpFrontend(Tail(deps))

\* "\tserver app<i+1> <ip>:<port> check\n"
ServerLines(instances) ==
    [i \in 1..Len(instances) |->
        <<"\tserver app", ToString(i), " ", ToString(instances[i].IP), ":",
          instances[i].Port, " check">>]

RECURSIVE BackendSections(_)
BackendSections(deps) ==
    IF deps = <<>> THEN <<>>
    ELSE << <<"backend ", Head(deps).Labels.AppName>> >>
         \o ServerLines(Head(deps).Instances)
         \o BackendSections(Tail(deps))

FrontendACMEChallenge ==
    << <<"    acl is_acme_challenge path_beg /.well-known/acme-challenge/">>,
       <<"    use_backend acme_challenge if is_acme_challenge">> >>

BackendACMEChallenge ==
    << <<"backend acme_challenge">>,
       <<"    mode http">>,
       <<"    server monitor monitor:8080">> >>

BackendDefault ==
    << <<"backend default_backend">>,
       <<"    http-request deny deny_status 404">> >>

CreateConfig(deps) ==
    << <<"frontend https-in">>,
       <<"\tbind *:443 ssl crt /usr/local/etc/haproxy/certs/">> >>
    \o HttpsFrontend(deps)
    \o << <<"frontend http-in">>, <<"\tbind *:80">> >>
    \o HttpFrontend(deps)
    \o FrontendACMEChallenge
    \o BackendSections(deps)
    \o BackendACMEChallenge
    \o BackendDefault

DeployInit ==
    /\ containers \in UNION {[1..n -> ContainerValues] : n \in 0..MaxContainers}
    /\ cidx = 1
    /\ deploymentsMap = EmptyMap
    /\ deployments = <<>>
    /\ config = <<>>
    /\ dpc = "loop"

DeployIdle ==
    /\ containers = <<>>
    /\ cidx = 1
    /\ deploymentsMap = EmptyMap
    /\ deployments = <<>>
    /\ config = <<>>
    /\ dpc = "idle"

\* one iteration of `for _, containerSummary := range containers`
ProcessContainer ==
    /\ dpc = "loop"
    /\ cidx <= Len(containers)
    /\ deploymentsMap' =
        IF containers[cidx].kind = "ok"
        THEN AddToDeployments(deploymentsMap, cidx, containers[cidx])
        ELSE deploymentsMap
    /\ cidx' = cidx + 1
    /\ UNCHANGED <<containers, deployments, config, dpc, labelVars, toolVars, notifyVars, certVars, monVars>>

\* `for _, deployment := range deploymentsMap`: the slice, in map order
CollectDeployments ==
    /\ dpc = "loop"
    /\ cidx > Len(containers)
    /\ \E order \in [1..Cardinality(DOMAIN deploymentsMap) -> DOMAIN deploymentsMap] :
        /\ \A i, j \in DOMAIN order : i # j => order[i] # order[j]
        /\ deployments' = [i \in DOMAIN order |-> deploymentsMap[order[i]]]
    /\ dpc' = "done"
    /\ UNCHANGED <<containers, cidx, deploymentsMap, config, labelVars, toolVars, notifyVars, certVars, monVars>>

\* CreateConfig applied to the slice the aggregation returned
RenderConfig ==
    /\ dpc = "done"
    /\ config' = CreateConfig(deployments)
    /\ dpc' = "rendered"
    /\ UNCHANGED <<containers, cidx, deploymentsMap, deployments>>
    /\ UNCHANGED <<labelVars, toolVars, notifyVars, certVars, monVars>>

DeployNext == ProcessContainer \/ CollectDeployments \/ RenderConfig

(***************************************************************************)
(* Certificate notifier: HAProxyNotifier.NotifyCertChange                  *)
(***************************************************************************)

CertificatesDir == "/usr/local/etc/haproxy/certs"
ManagedDomains == {"foo.example.com", "bar.example.com"}

\* socket errors of a step, recorded like the answers
DialError == <<"dial unix: connection refused">>
WriteError == <<"write unix: broken pipe">>
ReadError == <<"read unix: i/o timeout">>

\* what the proxy may answer on the admin socket, as pieces of text
Responses ==
    {<<"Success">>,
     <<"Unknown command", ". Please enter one of the following commands only">>,
     <<"Error: ", "certificate already exists">>}

\* filepath.Join(h.certDir, domain+".pem")
PemPath(domain) == <<CertificatesDir, "/", domain, ".pem">>

\* the commands slice; a command is the text written before the newline
MutCommandsWithCertList(domain) ==
    << <<"show ssl cert">>,
       <<"new ssl cert ">> \o PemPath(domain),
       <<"set ssl cert ", domain, " ">> \o PemPath(domain),
       <<"commit ssl cert">>,
       <<"set ssl cert-list 1 ">> \o PemPath(domain) >>
Commands(domain) ==
    << <<"show ssl cert">>,
       <<"new ssl cert ">> \o PemPath(domain),
       <<"set ssl cert ", domain, " ">> \o PemPath(domain),
       <<"commit ssl cert">> >>

\* strings.Contains(response, "Unknown command")
ContainsUnknownCommand(response) ==
    \E k \in 1..Len(response) : response[k] = "Unknown command"

\* the check made on each response before the next command: TRUE aborts
MutResponseNeverAborts(response) == FALSE
ResponseAborts(response) == ContainsUnknownCommand(response)

NotifyInit ==
    /\ hDomain \in ManagedDomains
    /\ pemOnDisk \in BOOLEAN
    /\ ncmd = 1
    /\ nphase = "stat"
    /\ dialed = 0
    /\ openConns = {}
    /\ sent = <<>>
    /\ outcomes = <<>>
    /\ nret = ""

NotifyIdle ==
    /\ hDomain = ""
    /\ pemOnDisk = FALSE
    /\ ncmd = 1
    /\ nphase = "idle"
    /\ dialed = 0
    /\ openConns = {}
    /\ sent = <<>>
    /\ outcomes = <<>>
    /\ nret = ""

\* return from NotifyCertChange: the deferred conn.Close() calls run
NotifyReturn(value) ==
    /\ nret' = value
    /\ nphase' = "returned"
    /\ openConns' = {}

\* os.Stat(pemPath)
NotifyStat ==
    /\ nphase = "stat"
    /\ IF pemOnDisk
       THEN /\ nphase' = "dial"
            /\ UNCHANGED <<nret, openConns>>
       ELSE NotifyReturn("err")
    /\ UNCHANGED <<hDomain, pemOnDisk, ncmd, dialed, sent, outcomes>>
    /\ UNCHANGED <<labelVars, toolVars, deployVars, certVars, monVars>>

\* net.Dial("unix", h.socketPath) for command ncmd
NotifyDial ==
    /\ nphase = "dial"
    /\ \E ok \in BOOLEAN :
        IF ok
        THEN /\ dialed' = dialed + 1
             /\ openConns' = openConns \cup {dialed + 1}
             /\ nphase' = "write"
             /\ UNCHANGED <<nret, outcomes>>
        ELSE /\ outcomes' = Append(outcomes, DialError)
             /\ NotifyReturn("err")
             /\ UNCHANGED dialed
    /\ UNCHANGED <<hDomain, pemOnDisk, ncmd, sent>>
    /\ UNCHANGED <<labelVars, toolVars, deployVars, certVars, monVars>>

\* conn.Write([]byte(cmd + "\n"))
NotifyWrite ==
    /\ nphase = "write"
    /\ \E ok \in BOOLEAN :
        IF ok
        THEN /\ sent' = Append(sent, [conn |-> dialed, cmd |-> Commands(hDomain)[ncmd]])
             /\ nphase' = "read"
             /\ UNCHANGED <<nret, outcomes, openConns>>
        ELSE /\ outcomes' = Append(outcomes, WriteError)
             /\ NotifyReturn("err")
             /\ UNCHANGED sent
    /\ UNCHANGED <<hDomain, pemOnDisk, ncmd, dialed>>
    /\ UNCHANGED <<labelVars, toolVars, deployVars, certVars, monVars>>

\* conn.Read(buf), conn.Close(), the check of the response, the next command
NotifyRead ==
    /\ nphase = "read"
    /\ \/ /\ outcomes' = Append(outcomes, ReadError)
          /\ NotifyReturn("err")
          /\ UNCHANGED ncmd
       \/ \E response \in Responses :
            /\ outcomes' = Append(outcomes, response)
            /\ IF ResponseAborts(response)
               THEN /\ NotifyReturn("err")
                    /\ UNCHANGED ncmd
               ELSE IF ncmd = Len(Commands(hDomain))
               THEN /\ NotifyReturn("nil")
                    /\ UNCHANGED ncmd
               ELSE /\ ncmd' = ncmd + 1
                    /\ nphase' = "dial"
                    /\ openConns' = openConns \ {dialed}
                    /\ UNCHANGED nret
    /\ UNCHANGED <<hDomain, pemOnDisk, dialed, sent>>
    /\ UNCHANGED <<labelVars, toolVars, deployVars, certVars, monVars>>

NotifyNext == NotifyStat \/ NotifyDial \/ NotifyWrite \/ NotifyRead

(***************************************************************************)
(* Certificate manager: certificates.Manager, its renewal loop and the     *)
(* goroutines AddDomain starts                                             *)
(***************************************************************************)

\* goroutines run until the process ends: main returns, exits or panics
ProcessAlive == loop \notin {"exited", "panicked"}

\* goroutines of AddDomain that may exist at a time
MaxGoroutines == 2

RenewalLoop == 0
Goroutines == 1..MaxGoroutines
Executors == {RenewalLoop} \cup Goroutines

\* the files saveCertificate writes, in the order it writes them
FileKinds == <<"crt", "key", "pem">>
AllFiles == SeqToSet(FileKinds)
NoFiles == [dom \in ManagedDomains |-> {}]

\* positions of obtainCertificate: the ACME request, the three WriteFile
\* calls of saveCertificate, notifyHAProxy
ObtainPcs == {"acme", "crt", "key", "pem", "notify"}

NotRunning == [domain |-> "", pc |-> "nil"]
Free == [domain |-> "", pc |-> "free"]

FreeGoroutines(e) == {g \in Goroutines : e[g].pc = "free"}

\* the manager as AddDomain/RemoveDomain see it: m.domains and the goroutines
ManagerState == [domains |-> mDomains, ex |-> ex]

\* AddDomain: skip a managed name, else record it and start the goroutine
AddDomain(m, dom) ==
    IF dom \in m.domains
    THEN m
    ELSE LET g == CHOOSE g \in FreeGoroutines(m.ex) : TRUE
         IN [domains |-> m.domains \cup {dom},
             ex |-> [m.ex EXCEPT ![g] = [domain |-> dom, pc |-> "stat"]]]

\* RemoveDomain: delete(m.domains, domainName); files and goroutines stay
RemoveDomain(m, dom) ==
    [m EXCEPT !.domains = m.domains \ {dom}]

\* where an executor continues when obtainCertificate (or the goroutine) returns
Returned(e) ==
    IF e = RenewalLoop THEN [domain |-> "", pc |-> "check"] ELSE Free

\* `time.Until(parsedCert.NotAfter) < 30*24*time.Hour`, in whole days
RenewalThreshold == 30
\* the lifetime of an issued certificate in days, longer than the threshold
CertValidity == 31

\* os.Stat(<domain>.crt) answers os.IsNotExist
MutNeedsObtainAlways(files) == TRUE
NeedsObtain(files) == "crt" \notin files

\* tls.LoadX509KeyPair(<domain>.crt, <domain>.key): both files are read
LoadX509KeyPair(files) == {"crt", "key"} \subseteq files

\* how the latest obtainCertificate of a domain ended, kept for the domains
\* whose history is observed; a failure that a renewal pass starts after is
\* one that pass is to retry
ObtainResults == {"unobserved", "none", "ok", "failed", "retry"}
Unobserved == [dom \in ManagedDomains |-> "unobserved"]
Record(last, dom, result) ==
    IF last[dom] = "unobserved" THEN last ELSE [last EXCEPT ![dom] = result]
PassStarts(last) ==
    [dom \in ManagedDomains |->
        IF last[dom] = "failed" THEN "retry" ELSE last[dom]]

\* a day later every certificate on disk is a day closer to NotAfter
DayLater(days) == [dom \in ManagedDomains |-> IF days[dom] > 0 THEN days[dom] - 1 ELSE 0]

NextFile(kind) ==
    CASE kind = "crt" -> "key"
      [] kind = "key" -> "pem"
      [] kind = "pem" -> "notify"

CertInit ==
    /\ certManager = "started"
    /\ mDomains = {}
    /\ certFiles \in [ManagedDomains -> {{}, AllFiles}]
    /\ daysLeft = [dom \in ManagedDomains |->
                      IF certFiles[dom] = {} THEN 0 ELSE RenewalThreshold - 1]
    /\ lastObtain = Unobserved
    /\ ex = [e \in Executors |->
                IF e = RenewalLoop THEN [domain |-> "", pc |-> "start"] ELSE Free]
    /\ rqueue = {}
    /\ mCancelled = FALSE
    /\ socketOpened = FALSE

CertIdle ==
    /\ certManager = "nil"
    /\ mDomains = {}
    /\ certFiles = NoFiles
    /\ daysLeft = [dom \in ManagedDomains |-> 0]
    /\ lastObtain = Unobserved
    /\ ex = [e \in Executors |-> IF e = RenewalLoop THEN NotRunning ELSE Free]
    /\ rqueue = {}
    /\ mCancelled = FALSE
    /\ socketOpened = FALSE

\* a caller of the manager's API adds a domain
CallAddDomain(dom) ==
    /\ certManager = "started"
    /\ dom \in mDomains \/ FreeGoroutines(ex) # {}
    /\ mDomains' = AddDomain(ManagerState, dom).domains
    /\ ex' = AddDomain(ManagerState, dom).ex
    /\ UNCHANGED <<certManager, certFiles, daysLeft, lastObtain, rqueue, mCancelled, socketOpened>>
    /\ UNCHANGED <<labelVars, toolVars, deployVars, notifyVars, monVars>>

CallRemoveDomain(dom) ==
    /\ certManager = "started"
    /\ mDomains' = RemoveDomain(ManagerState, dom).domains
    /\ UNCHANGED <<certManager, certFiles, daysLeft, lastObtain, ex, rqueue, mCancelled, socketOpened>>
    /\ UNCHANGED <<labelVars, toolVars, deployVars, notifyVars, monVars>>

\* Stop: m.cancel()
CallStop ==
    /\ certManager = "started"
    /\ mCancelled' = TRUE
    /\ UNCHANGED <<certManager, mDomains, certFiles, daysLeft, lastObtain, ex, rqueue, socketOpened>>
    /\ UNCHANGED <<labelVars, toolVars, deployVars, notifyVars, monVars>>

\* the goroutine of AddDomain: os.Stat of <domain>.crt
GoStat(g) ==
    /\ ProcessAlive
    /\ ex[g].pc = "stat"
    /\ ex' = [ex EXCEPT ![g] =
                IF NeedsObtain(certFiles[ex[g].domain])
                THEN [domain |-> ex[g].domain, pc |-> "acme"]
                ELSE Free]
    /\ UNCHANGED <<certManager, mDomains, certFiles, daysLeft, lastObtain, rqueue, mCancelled,
                   socketOpened>>
    /\ UNCHANGED <<labelVars, toolVars, deployVars, notifyVars, monVars>>

\* obtainCertificate: m.client.Certificate.Obtain(request)
ObtainRequest(e) ==
    /\ ProcessAlive
    /\ ex[e].pc = "acme"
    /\ \E ok \in BOOLEAN :
          /\ ex' = [ex EXCEPT ![e] =
                       IF ok THEN [domain |-> ex[e].domain, pc |-> "crt"]
                       ELSE Returned(e)]
          /\ lastObtain' = IF ok THEN lastObtain
                           ELSE Record(lastObtain, ex[e].domain, "failed")
    /\ UNCHANGED <<certManager, mDomains, certFiles, daysLeft, rqueue,
                   mCancelled, socketOpened>>
    /\ UNCHANGED <<labelVars, toolVars, deployVars, notifyVars, monVars>>

\* saveCertificate: one os.WriteFile per step, the first error returns
ObtainSave(e) ==
    /\ ProcessAlive
    /\ ex[e].pc \in AllFiles
    /\ \E ok \in BOOLEAN :
          IF ok
          THEN /\ certFiles' = [certFiles EXCEPT ![ex[e].domain] =
                                    @ \cup {ex[e].pc}]
               /\ daysLeft' = IF ex[e].pc = "crt"
                              THEN [daysLeft EXCEPT ![ex[e].domain] = CertValidity]
                              ELSE daysLeft
               /\ ex' = [ex EXCEPT ![e].pc = NextFile(ex[e].pc)]
               /\ UNCHANGED lastObtain
          ELSE /\ ex' = [ex EXCEPT ![e] = Returned(e)]
               /\ lastObtain' = Record(lastObtain, ex[e].domain, "failed")
               /\ UNCHANGED <<certFiles, daysLeft>>
    /\ UNCHANGED <<certManager, mDomains, rqueue, mCancelled, socketOpened>>
    /\ UNCHANGED <<labelVars, toolVars, deployVars, notifyVars, monVars>>

\* notifyHAProxy: NewHAProxyNotifier(m.config.HAProxySocket, ...) and
\* NotifyCertChange, which dials the socket once the bundle is on disk
ObtainNotify(e) ==
    /\ ProcessAlive
    /\ ex[e].pc = "notify"
    /\ socketOpened' = (socketOpened \/ "pem" \in certFiles[ex[e].domain])
    /\ ex' = [ex EXCEPT ![e] = Returned(e)]
    /\ \E ok \in BOOLEAN :
          lastObtain' = Record(lastObtain, ex[e].domain,
                               IF ok THEN "ok" ELSE "failed")
    /\ UNCHANGED <<certManager, mDomains, certFiles, daysLeft, rqueue,
                   mCancelled>>
    /\ UNCHANGED <<labelVars, toolVars, deployVars, notifyVars, monVars>>

\* renewalLoop: the initial m.checkRenewals(); the snapshot of m.domains
RenewalInitialCheck ==
    /\ ProcessAlive
    /\ ex[RenewalLoop].pc = "start"
    /\ rqueue' = mDomains
    /\ ex' = [ex EXCEPT ![RenewalLoop].pc = "check"]
    /\ lastObtain' = PassStarts(lastObtain)
    /\ UNCHANGED <<certManager, mDomains, certFiles, daysLeft, mCancelled,
                   socketOpened>>
    /\ UNCHANGED <<labelVars, toolVars, deployVars, notifyVars, monVars>>

\* renewalLoop: case <-ticker.C
RenewalTick ==
    /\ ProcessAlive
    /\ ex[RenewalLoop].pc = "wait"
    /\ rqueue' = mDomains
    /\ ex' = [ex EXCEPT ![RenewalLoop].pc = "check"]
    /\ lastObtain' = PassStarts(lastObtain)
    /\ UNCHANGED <<certManager, mDomains, certFiles, daysLeft, mCancelled,
                   socketOpened>>
    /\ UNCHANGED <<labelVars, toolVars, deployVars, notifyVars, monVars>>

\* renewalLoop: case <-m.ctx.Done()
RenewalExit ==
    /\ ProcessAlive
    /\ ex[RenewalLoop].pc = "wait"
    /\ mCancelled
    /\ ex' = [ex EXCEPT ![RenewalLoop].pc = "exited"]
    /\ UNCHANGED <<certManager, mDomains, certFiles, daysLeft, lastObtain, rqueue, mCancelled,
                   socketOpened>>
    /\ UNCHANGED <<labelVars, toolVars, deployVars, notifyVars, monVars>>

\* checkRenewals: one iteration of `for _, domain := range domains`
CheckRenewals ==
    /\ ProcessAlive
    /\ ex[RenewalLoop].pc = "check"
    /\ \/ /\ rqueue = {}
          /\ ex' = [ex EXCEPT ![RenewalLoop].pc = "wait"]
          /\ UNCHANGED rqueue
       \/ \E dom \in rqueue :
            /\ rqueue' = rqueue \ {dom}
            /\ IF "crt" \notin certFiles[dom]
               THEN ex' = [ex EXCEPT ![RenewalLoop] =
                                [domain |-> dom, pc |-> "acme"]]
               ELSE IF ~LoadX509KeyPair(certFiles[dom])
               THEN UNCHANGED ex
               ELSE IF daysLeft[dom] < RenewalThreshold
               THEN ex' = [ex EXCEPT ![RenewalLoop] =
                                [domain |-> dom, pc |-> "acme"]]
               ELSE UNCHANGED ex
    /\ UNCHANGED <<certManager, mDomains, certFiles, daysLeft, lastObtain, mCancelled, socketOpened>>
    /\ UNCHANGED <<labelVars, toolVars, deployVars, notifyVars, monVars>>

\* the steps of the manager's goroutines while m.ctx is live
CertRun ==
    \/ \E g \in Goroutines : GoStat(g)
    \/ \E e \in Executors : ObtainRequest(e)
    \/ \E e \in Executors : ObtainSave(e)
    \/ \E e \in Executors : ObtainNotify(e)
    \/ RenewalInitialCheck
    \/ RenewalTick
    \/ CheckRenewals

CertNext ==
    \/ \E dom \in ManagedDomains : CallAddDomain(dom)
    \/ \E dom \in ManagedDomains : CallRemoveDomain(dom)
    \/ CallStop
    \/ RenewalExit
    \/ CertRun

\* ---- the manager over the days: one domain, the 24 h ticker of renewalLoop

RenewalDomain == "foo.example.com"

RenewalInit ==
    /\ certManager = "started"
    /\ mDomains = {}
    /\ certFiles \in [ManagedDomains -> {{}, AllFiles}]
    /\ \A dom \in ManagedDomains \ {RenewalDomain} : certFiles[dom] = {}
    /\ daysLeft = [dom \in ManagedDomains |->
                      IF certFiles[dom] = {} THEN 0 ELSE RenewalThreshold - 1]
    /\ lastObtain = [Unobserved EXCEPT ![RenewalDomain] = "none"]
    /\ ex = [e \in Executors |->
                IF e = RenewalLoop THEN [domain |-> "", pc |-> "start"] ELSE Free]
    /\ rqueue = {}
    /\ mCancelled = FALSE
    /\ socketOpened = FALSE

\* renewalLoop: 24 hours after the previous pass, case <-ticker.C
RenewalDayTick ==
    /\ ProcessAlive
    /\ ex[RenewalLoop].pc = "wait"
    /\ daysLeft' = DayLater(daysLeft)
    /\ rqueue' = mDomains
    /\ ex' = [ex EXCEPT ![RenewalLoop].pc = "check"]
    /\ lastObtain' = PassStarts(lastObtain)
    /\ UNCHANGED <<certManager, mDomains, certFiles, mCancelled, socketOpened>>
    /\ UNCHANGED <<labelVars, toolVars, deployVars, notifyVars, monVars>>

RenewalNext ==
    \/ CallAddDomain(RenewalDomain)
    \/ CallRemoveDomain(RenewalDomain)
    \/ \E g \in Goroutines : GoStat(g)
    \/ \E e \in Executors : ObtainRequest(e)
    \/ \E e \in Executors : ObtainSave(e)
    \/ \E e \in Executors : ObtainNotify(e)
    \/ RenewalInitialCheck
    \/ CheckRenewals
    \/ RenewalDayTick

(***************************************************************************)
(* Monitor: the event loop of cmd/monitor/main.go, the blue-green          *)
(* goroutines (haproxy.Client.ExecuteBlueGreen) and the domain watcher     *)
(***************************************************************************)

\* containers Docker reports events for
MaxMonContainers == 2
MonContainers == 1..MaxMonContainers

\* what the containers are: two generations of app "A" on one domain, then
\* an app "B" without an ACME e-mail on another, then a second "A" instance;
\* with replicas they are instances of one deployment per app
AppOf(c) == IF c % 3 = 0 THEN "B" ELSE "A"
DeploymentOf(c) ==
    IF replicas THEN <<"2">> ELSE IF c % 2 = 1 THEN <<"1">> ELSE <<"2">>
DomainOf(c) == IF AppOf(c) = "A" THEN "foo.example.com" ELSE "bar.example.com"
EmailOf(c) == IF AppOf(c) = "A" THEN "ops@example.com" ELSE ""

\* the two label schemas containers carry: `turkis.app` (run.sh, the start
\* handler) and `turkis.appName` (the deployer, the die handler)
LabelSchemes == {"app", "appName", "both"}

ContainerLabelsOf(c) ==
    [app |-> IF labelScheme \in {"app", "both"} THEN AppOf(c) ELSE "",
     appName |-> IF labelScheme \in {"appName", "both"} THEN AppOf(c) ELSE "",
     deployment |-> DeploymentOf(c),
     domain0 |-> DomainOf(c),
     email |-> EmailOf(c)]

\* ParseContainerDomains: `turkis.app` is required, then the indexed domains
ParseContainerDomains(l) ==
    IF l.app = ""
    THEN [err |-> TRUE, AppName |-> "", DeploymentID |-> <<>>, Domains |-> {}]
    ELSE [err |-> FALSE, AppName |-> l.app, DeploymentID |-> l.deployment,
          Domains |-> {l.domain0}]

\* a backend "<app>-<deploymentID>"; the empty one is "no entry"
Backend(app, did) == [app |-> app, did |-> did]
NoBackend == Backend("", <<>>)
NoDeployment == <<>>

\* var certRefreshTicker *time.Ticker, assigned only if !noTLS
certRefreshTicker == IF noTLS THEN "nil" ELSE "ticker"
\* entering the select evaluates certRefreshTicker.C
SelectEnters == certRefreshTicker # "nil"

NoTask ==
    [pc |-> "none", old |-> NoDeployment, routedAtStart |-> NoDeployment,
     switched |-> FALSE]
SyncIdle == [pc |-> "idle", seen |-> {}, todo |-> {}]

\* DomainProviderImpl.GetAllDomains: the canonical names of the containers
\* a provider that drops a canonical as soon as two containers advertise it
MutGetAllDomainsOfOneOwner ==
    {DomainOf(c) : c \in
        {x \in providerContainers :
            \A y \in providerContainers \ {x} : DomainOf(y) # DomainOf(x)}}
GetAllDomains == {DomainOf(c) : c \in providerContainers}

\* getCurrentDeploymentID: the backend of the sample domain, if it is the app's
getCurrentDeploymentID(hm, app, sampleDomain, sendOk) ==
    IF sendOk /\ hm[sampleDomain] # NoBackend /\ hm[sampleDomain].app = app
    THEN hm[sampleDomain].did
    ELSE NoDeployment

\* RemoveBackend on a live client: show map, del map of the backend's
\* domains, del backend
RemoveOutcomes == {"ok", "show map failed"}
RemoveBackendMaps(hm, name, outcome) ==
    IF outcome = "show map failed"
    THEN hm
    ELSE [dom \in DOMAIN hm |-> IF hm[dom] = name THEN NoBackend ELSE hm[dom]]
RemoveBackendSet(bk, name, outcome) ==
    IF outcome = "show map failed" THEN bk ELSE bk \ {name}

MonInit ==
    /\ dryRun \in BOOLEAN
    /\ noTLS \in BOOLEAN
    /\ labelScheme \in LabelSchemes
    /\ replicas \in BOOLEAN
    /\ loop = "running"
    /\ cstate = [c \in MonContainers |-> "created"]
    /\ providerContainers = {}
    /\ domainWatcher = "nil"
    /\ knownDomains = {}
    /\ sync = SyncIdle
    /\ syncPending = FALSE
    /\ hostsMap = [dom \in ManagedDomains |-> NoBackend]
    /\ backends = {}
    /\ bg = [c \in MonContainers |-> NoTask]
    /\ deploymentRegistry = [a \in AppNames |-> NoDeployment]

MonIdle ==
    /\ dryRun = FALSE
    /\ noTLS = FALSE
    /\ labelScheme = "app"
    /\ replicas = FALSE
    /\ loop = "off"
    /\ cstate = [c \in MonContainers |-> "created"]
    /\ providerContainers = {}
    /\ domainWatcher = "nil"
    /\ knownDomains = {}
    /\ sync = SyncIdle
    /\ syncPending = FALSE
    /\ hostsMap = [dom \in ManagedDomains |-> NoBackend]
    /\ backends = {}
    /\ bg = [c \in MonContainers |-> NoTask]
    /\ deploymentRegistry = [a \in AppNames |-> NoDeployment]

\* the select of the loop with a nil certRefreshTicker: nil pointer dereference
LoopPanic ==
    /\ loop = "running"
    /\ ~SelectEnters
    /\ loop' = "panicked"
    /\ UNCHANGED <<dryRun, noTLS, labelScheme, replicas, cstate, providerContainers,
                   domainWatcher, knownDomains, sync, syncPending, hostsMap,
                   backends, bg, deploymentRegistry>>
    /\ UNCHANGED <<labelVars, toolVars, deployVars, notifyVars, certVars>>

\* case <-sigChan: Stop, cancel and return, which ends the process
Shutdown ==
    /\ loop = "running"
    /\ SelectEnters
    /\ mCancelled' = (mCancelled \/ certManager # "nil")
    /\ loop' = "exited"
    /\ UNCHANGED <<certManager, mDomains, certFiles, daysLeft, lastObtain, ex, rqueue, socketOpened>>
    /\ UNCHANGED <<dryRun, noTLS, labelScheme, replicas, cstate, providerContainers,
                   domainWatcher, knownDomains, sync, syncPending, hostsMap,
                   backends, bg, deploymentRegistry>>
    /\ UNCHANGED <<labelVars, toolVars, deployVars, notifyVars>>

\* case event := <-eventsChan, event.Action = "start"
MutStartEventWithoutWatcher(c) ==
    /\ loop = "running"
    /\ SelectEnters
    /\ cstate[c] = "created"
    /\ cstate' = [cstate EXCEPT ![c] = "running"]
    /\ \E inspected \in BOOLEAN, managerStarts \in BOOLEAN :
        LET domains == ParseContainerDomains(ContainerLabelsOf(c))
            email == ContainerLabelsOf(c).email
            needsManager == ~noTLS /\ email # "" /\ certManager = "nil"
            managerAfter == IF needsManager THEN "started" ELSE certManager
            watcherAfter == domainWatcher
            tracked == ~noTLS /\ managerAfter # "nil" /\ watcherAfter # "nil"
            sample == CHOOSE dom \in domains.Domains : TRUE
        IN  IF ~inspected \/ domains.err \/ domains.Domains = {}
            THEN \* ContainerInspect, network, port or labels: `continue`
                 /\ UNCHANGED <<loop, providerContainers, domainWatcher,
                                syncPending, bg>>
                 /\ UNCHANGED <<certManager, ex>>
            ELSE IF needsManager /\ ~managerStarts
            THEN \* NewManager or Start failed: logger.Fatalf
                 /\ loop' = "exited"
                 /\ UNCHANGED <<providerContainers, domainWatcher,
                                syncPending, bg>>
                 /\ UNCHANGED <<certManager, ex>>
            ELSE /\ certManager' = managerAfter
                 /\ domainWatcher' = watcherAfter
                 /\ ex' = IF needsManager
                          THEN [ex EXCEPT ![RenewalLoop] =
                                    [domain |-> "", pc |-> "start"]]
                          ELSE ex
                 /\ providerContainers' =
                        IF tracked THEN providerContainers \cup {c}
                        ELSE providerContainers
                 /\ syncPending' = (syncPending \/ tracked)
                 /\ bg' = [bg EXCEPT ![c] =
                            [pc |-> "call", old |-> NoDeployment,
                             routedAtStart |->
                                getCurrentDeploymentID(hostsMap,
                                    domains.AppName, sample, TRUE),
                             switched |-> FALSE]]
                 /\ UNCHANGED loop
    /\ UNCHANGED <<mDomains, certFiles, daysLeft, lastObtain, rqueue, mCancelled, socketOpened>>
    /\ UNCHANGED <<dryRun, noTLS, labelScheme, replicas, knownDomains, sync, hostsMap,
                   backends, deploymentRegistry>>
    /\ UNCHANGED <<labelVars, toolVars, deployVars, notifyVars>>
StartEvent(c) ==
    /\ loop = "running"
    /\ SelectEnters
    /\ cstate[c] = "created"
    /\ cstate' = [cstate EXCEPT ![c] = "running"]
    /\ \E inspected \in BOOLEAN, managerStarts \in BOOLEAN :
        LET domains == ParseContainerDomains(ContainerLabelsOf(c))
            email == ContainerLabelsOf(c).email
            needsManager == ~noTLS /\ email # "" /\ certManager = "nil"
            managerAfter == IF needsManager THEN "started" ELSE certManager
            watcherAfter == IF needsManager THEN "set" ELSE domainWatcher
            tracked == ~noTLS /\ managerAfter # "nil" /\ watcherAfter # "nil"
            sample == CHOOSE dom \in domains.Domains : TRUE
        IN  IF ~inspected \/ domains.err \/ domains.Domains = {}
            THEN \* ContainerInspect, network, port or labels: `continue`
                 /\ UNCHANGED <<loop, providerContainers, domainWatcher,
                                syncPending, bg>>
                 /\ UNCHANGED <<certManager, ex>>
            ELSE IF needsManager /\ ~managerStarts
            THEN \* NewManager or Start failed: logger.Fatalf
                 /\ loop' = "exited"
                 /\ UNCHANGED <<providerContainers, domainWatcher,
                                syncPending, bg>>
                 /\ UNCHANGED <<certManager, ex>>
            ELSE /\ certManager' = managerAfter
                 /\ domainWatcher' = watcherAfter
                 /\ ex' = IF needsManager
                          THEN [ex EXCEPT ![RenewalLoop] =
                                    [domain |-> "", pc |-> "start"]]
                          ELSE ex
                 /\ providerContainers' =
                        IF tracked THEN providerContainers \cup {c}
                        ELSE providerContainers
                 /\ syncPending' = (syncPending \/ tracked)
                 /\ bg' = [bg EXCEPT ![c] =
                            [pc |-> "call", old |-> NoDeployment,
                             routedAtStart |->
                                getCurrentDeploymentID(hostsMap,
                                    domains.AppName, sample, TRUE),
                             switched |-> FALSE]]
                 /\ UNCHANGED loop
    /\ UNCHANGED <<mDomains, certFiles, daysLeft, lastObtain, rqueue, mCancelled, socketOpened>>
    /\ UNCHANGED <<dryRun, noTLS, labelScheme, replicas, knownDomains, sync, hostsMap,
                   backends, deploymentRegistry>>
    /\ UNCHANGED <<labelVars, toolVars, deployVars, notifyVars>>

\* case event := <-eventsChan, event.Action in "die", "stop", "kill"
DieEvent(c) ==
    /\ loop = "running"
    /\ SelectEnters
    /\ cstate[c] = "running"
    /\ cstate' = [cstate EXCEPT ![c] = "exited"]
    /\ \E inspected \in BOOLEAN, outcome \in RemoveOutcomes :
        LET appName == ContainerLabelsOf(c).appName
            deploymentID == ContainerLabelsOf(c).deployment
            name == Backend(appName, deploymentID)
            live == appName # "" /\ ~dryRun
        IN  IF ~inspected
            THEN UNCHANGED <<providerContainers, syncPending, hostsMap,
                             backends, socketOpened>>
            ELSE /\ providerContainers' =
                        IF ~noTLS THEN providerContainers \ {c}
                        ELSE providerContainers
                 /\ syncPending' =
                        (syncPending \/ (~noTLS /\ domainWatcher # "nil"))
                 /\ hostsMap' = IF live
                                THEN RemoveBackendMaps(hostsMap, name, outcome)
                                ELSE hostsMap
                 /\ backends' = IF live
                                THEN RemoveBackendSet(backends, name, outcome)
                                ELSE backends
                 /\ socketOpened' = (socketOpened \/ live)
    /\ UNCHANGED <<certManager, mDomains, certFiles, daysLeft, lastObtain, ex, rqueue, mCancelled>>
    /\ UNCHANGED <<dryRun, noTLS, labelScheme, replicas, loop, domainWatcher,
                   knownDomains, sync, bg, deploymentRegistry>>
    /\ UNCHANGED <<labelVars, toolVars, deployVars, notifyVars>>

\* ---- the goroutine of the start handler: ExecuteBlueGreen, then the registry

BGUnchanged ==
    /\ UNCHANGED <<certManager, mDomains, certFiles, daysLeft, lastObtain, ex, rqueue, mCancelled>>
    /\ UNCHANGED <<dryRun, noTLS, labelScheme, replicas, loop, cstate,
                   providerContainers, domainWatcher, knownDomains, sync,
                   syncPending>>
    /\ UNCHANGED <<labelVars, toolVars, deployVars, notifyVars>>

NewBackend(c) == Backend(AppOf(c), DeploymentOf(c))

\* the dry-run return, or step 1: getCurrentDeploymentID
BGFind(c) ==
    /\ ProcessAlive
    /\ bg[c].pc = "call"
    /\ IF dryRun
       THEN /\ bg' = [bg EXCEPT ![c].pc = "returned"]
            /\ UNCHANGED socketOpened
       ELSE /\ \E sendOk \in BOOLEAN :
                 bg' = [bg EXCEPT ![c].pc = "configure",
                                  ![c].old = getCurrentDeploymentID(hostsMap,
                                               AppOf(c), DomainOf(c), sendOk)]
            /\ socketOpened' = TRUE
    /\ UNCHANGED <<hostsMap, backends, deploymentRegistry>>
    /\ BGUnchanged

\* step 2: ConfigureBackend
BGConfigure(c) ==
    /\ ProcessAlive
    /\ bg[c].pc = "configure"
    /\ \E sendOk \in BOOLEAN :
         IF sendOk
         THEN /\ backends' = backends \cup {NewBackend(c)}
              /\ bg' = [bg EXCEPT ![c].pc = "health"]
         ELSE /\ bg' = [bg EXCEPT ![c].pc = "failed"]
              /\ UNCHANGED backends
    /\ UNCHANGED <<hostsMap, deploymentRegistry, socketOpened>>
    /\ BGUnchanged

\* step 3: performHealthChecks; an unhealthy backend is removed again
BGHealth(c) ==
    /\ ProcessAlive
    /\ bg[c].pc = "health"
    /\ \E healthy \in BOOLEAN, outcome \in RemoveOutcomes :
         IF healthy
         THEN /\ bg' = [bg EXCEPT ![c].pc = "switch"]
              /\ UNCHANGED <<hostsMap, backends>>
         ELSE /\ hostsMap' = RemoveBackendMaps(hostsMap, NewBackend(c), outcome)
              /\ backends' = RemoveBackendSet(backends, NewBackend(c), outcome)
              /\ bg' = [bg EXCEPT ![c].pc = "failed"]
    /\ UNCHANGED <<deploymentRegistry, socketOpened>>
    /\ BGUnchanged

\* step 4: `add map hosts.map <domain> <new backend>` for the domains
MutBGSwitchAlwaysDrains(c) ==
    /\ ProcessAlive
    /\ bg[c].pc = "switch"
    /\ \E sendOk \in BOOLEAN :
         /\ hostsMap' = IF sendOk
                        THEN [hostsMap EXCEPT ![DomainOf(c)] = NewBackend(c)]
                        ELSE hostsMap
         /\ bg' = [bg EXCEPT ![c].switched = sendOk, ![c].pc = "drain"]
    /\ UNCHANGED <<backends, deploymentRegistry, socketOpened>>
    /\ BGUnchanged
BGSwitch(c) ==
    /\ ProcessAlive
    /\ bg[c].pc = "switch"
    /\ \E sendOk \in BOOLEAN :
         /\ hostsMap' = IF sendOk
                        THEN [hostsMap EXCEPT ![DomainOf(c)] = NewBackend(c)]
                        ELSE hostsMap
         /\ bg' = [bg EXCEPT
                     ![c].switched = sendOk,
                     ![c].pc = IF bg[c].old # NoDeployment
                                  /\ bg[c].old # DeploymentOf(c)
                               THEN "drain" ELSE "returned"]
    /\ UNCHANGED <<backends, deploymentRegistry, socketOpened>>
    /\ BGUnchanged

\* step 5: maintenance mode, then the drain wait or ctx.Done()
BGDrain(c) ==
    /\ ProcessAlive
    /\ bg[c].pc = "drain"
    /\ \E ctxDone \in BOOLEAN :
         bg' = [bg EXCEPT ![c].pc = IF ctxDone THEN "failed" ELSE "remove"]
    /\ UNCHANGED <<hostsMap, backends, deploymentRegistry, socketOpened>>
    /\ BGUnchanged

\* step 5: RemoveBackend of the old deployment; its error is only logged
BGRemoveOld(c) ==
    /\ ProcessAlive
    /\ bg[c].pc = "remove"
    /\ \E outcome \in RemoveOutcomes :
         /\ hostsMap' = RemoveBackendMaps(hostsMap,
                            Backend(AppOf(c), bg[c].old), outcome)
         /\ backends' = RemoveBackendSet(backends,
                            Backend(AppOf(c), bg[c].old), outcome)
    /\ bg' = [bg EXCEPT ![c].pc = "returned"]
    /\ UNCHANGED <<deploymentRegistry, socketOpened>>
    /\ BGUnchanged

\* ExecuteBlueGreen returned nil: deploymentRegistry[AppName] = DeploymentID
MutBGRegisterAfterError(c) ==
    /\ ProcessAlive
    /\ bg[c].pc \in {"returned", "failed"}
    /\ deploymentRegistry' =
           [deploymentRegistry EXCEPT ![AppOf(c)] = DeploymentOf(c)]
    /\ bg' = [bg EXCEPT ![c].pc = "done"]
    /\ UNCHANGED <<hostsMap, backends, socketOpened>>
    /\ BGUnchanged
BGRegister(c) ==
    /\ ProcessAlive
    /\ bg[c].pc = "returned"
    /\ deploymentRegistry' =
           [deploymentRegistry EXCEPT ![AppOf(c)] = DeploymentOf(c)]
    /\ bg' = [bg EXCEPT ![c].pc = "done"]
    /\ UNCHANGED <<hostsMap, backends, socketOpened>>
    /\ BGUnchanged

\* ---- go domainWatcher.SyncDomains()

SyncUnchanged ==
    /\ UNCHANGED <<certManager, certFiles, daysLeft, lastObtain, rqueue, mCancelled, socketOpened>>
    /\ UNCHANGED <<dryRun, noTLS, labelScheme, replicas, loop, cstate,
                   providerContainers, domainWatcher, hostsMap, backends, bg,
                   deploymentRegistry>>
    /\ UNCHANGED <<labelVars, toolVars, deployVars, notifyVars>>

\* the goroutine takes domainMutex and reads the provider
SyncBegin ==
    /\ ProcessAlive
    /\ syncPending
    /\ sync.pc = "idle"
    /\ syncPending' = FALSE
    /\ sync' = [pc |-> "add", seen |-> GetAllDomains, todo |-> GetAllDomains]
    /\ UNCHANGED <<mDomains, ex, knownDomains>>
    /\ SyncUnchanged

\* one iteration of `for domainName, aliases := range domains`
SyncAdd ==
    /\ ProcessAlive
    /\ sync.pc = "add"
    /\ \/ /\ sync.todo = {}
          /\ sync' = [sync EXCEPT !.pc = "remove",
                                  !.todo = knownDomains \ sync.seen]
          /\ UNCHANGED <<mDomains, ex, knownDomains>>
       \/ \E dom \in sync.todo :
            /\ sync' = [sync EXCEPT !.todo = sync.todo \ {dom}]
            /\ IF dom \in knownDomains
               THEN UNCHANGED <<mDomains, ex, knownDomains>>
               ELSE /\ dom \in mDomains \/ FreeGoroutines(ex) # {}
                    /\ mDomains' = AddDomain(ManagerState, dom).domains
                    /\ ex' = AddDomain(ManagerState, dom).ex
                    /\ knownDomains' = knownDomains \cup {dom}
    /\ UNCHANGED syncPending
    /\ SyncUnchanged

\* one iteration of `for domainName := range dw.knownDomains`
SyncRemove ==
    /\ ProcessAlive
    /\ sync.pc = "remove"
    /\ \/ /\ sync.todo = {}
          /\ sync' = SyncIdle
          /\ UNCHANGED <<mDomains, knownDomains>>
       \/ \E dom \in sync.todo :
            /\ sync' = [sync EXCEPT !.todo = sync.todo \ {dom}]
            /\ mDomains' = RemoveDomain(ManagerState, dom).domains
            /\ knownDomains' = knownDomains \ {dom}
    /\ UNCHANGED <<ex, syncPending>>
    /\ SyncUnchanged

\* ---- the two tickers of the loop

\* AddDomain for each name of a set, one after the other
RECURSIVE AddDomains(_, _)
AddDomains(m, doms) ==
    IF doms = {} THEN m
    ELSE LET dom == CHOOSE x \in doms : TRUE
         IN AddDomains(AddDomain(m, dom), doms \ {dom})

\* DomainWatcher.SyncDomains run to its end on a watcher that knows `known`
\* and whose provider advertises `provided`: AddDomain for the names not
\* known, RemoveDomain for the known names no longer provided
SyncDomains(m, known, provided) ==
    LET added == AddDomains(m, provided \ known)
    IN [domains |-> added.domains \ (known \ provided),
        ex |-> added.ex,
        known |-> provided]

\* AddDomain starts a goroutine for every name that is not managed yet
CanStart(doms, e) ==
    Cardinality(doms \ mDomains) <= Cardinality(FreeGoroutines(e))

\* ContainerList: the running containers
Running == {c \in MonContainers : cstate[c] = "running"}
Parses(c) == ~ParseContainerDomains(ContainerLabelsOf(c)).err
Advertising(cs, dom) == {c \in cs : Parses(c) /\ DomainOf(c) = dom}

\* case <-refreshTicker.C: ConfigureFromDomains for the listed containers,
\* then a new provider, the manager if an e-mail label is found, a new
\* watcher and its SyncDomains.  The ticks taken are those that find no
\* SyncDomains goroutine of the previous watcher pending or at work.
RefreshTick ==
    /\ loop = "running"
    /\ SelectEnters
    /\ sync.pc = "idle"
    /\ ~syncPending
    /\ \E listed \in BOOLEAN, managerStarts \in BOOLEAN,
          configured \in SUBSET Running, inspected \in SUBSET Running,
          last \in [ManagedDomains -> MonContainers] :
        LET newProvider == {c \in inspected : Parses(c)}
            provided == {DomainOf(c) : c \in newProvider}
            needsManager ==
                /\ ~noTLS
                /\ certManager = "nil"
                /\ \E c \in inspected : ContainerLabelsOf(c).email # ""
            fatal == needsManager /\ ~managerStarts
            managerAfter == IF needsManager THEN "started" ELSE certManager
            syncs == ~noTLS /\ managerAfter # "nil"
            started == [domains |-> mDomains,
                        ex |-> IF needsManager
                               THEN [ex EXCEPT ![RenewalLoop] =
                                        [domain |-> "", pc |-> "start"]]
                               ELSE ex]
            synced == SyncDomains(started, {}, provided)
        IN  IF ~listed
            THEN \* ContainerList failed: `continue`
                 /\ UNCHANGED <<loop, providerContainers, domainWatcher,
                                knownDomains, hostsMap, backends>>
                 /\ UNCHANGED <<certManager, mDomains, ex, socketOpened>>
            ELSE /\ \A dom \in ManagedDomains :
                        last[dom] \in Advertising(configured, dom)
                            \cup (IF Advertising(configured, dom) = {}
                                  THEN {1} ELSE {})
                 /\ hostsMap' =
                        [dom \in ManagedDomains |->
                            IF ~dryRun /\ Advertising(configured, dom) # {}
                            THEN NewBackend(last[dom]) ELSE hostsMap[dom]]
                 /\ backends' =
                        IF dryRun THEN backends
                        ELSE backends \cup
                                {NewBackend(c) : c \in {x \in configured : Parses(x)}}
                 /\ socketOpened' =
                        (socketOpened
                            \/ (~dryRun /\ \E c \in configured : Parses(c)))
                 /\ IF fatal
                    THEN \* NewManager or Start failed: logger.Fatalf
                         /\ loop' = "exited"
                         /\ UNCHANGED <<providerContainers, domainWatcher,
                                        knownDomains>>
                         /\ UNCHANGED <<certManager, mDomains, ex>>
                    ELSE /\ syncs => CanStart(provided, started.ex)
                         /\ providerContainers' =
                                IF noTLS THEN providerContainers
                                ELSE newProvider
                         /\ certManager' = managerAfter
                         /\ domainWatcher' =
                                IF syncs THEN "set" ELSE domainWatcher
                         /\ knownDomains' =
                                IF syncs THEN synced.known ELSE knownDomains
                         /\ mDomains' =
                                IF syncs THEN synced.domains ELSE mDomains
                         /\ ex' = IF syncs THEN synced.ex ELSE started.ex
                         /\ UNCHANGED loop
    /\ UNCHANGED <<certFiles, daysLeft, lastObtain, rqueue, mCancelled>>
    /\ UNCHANGED <<dryRun, noTLS, labelScheme, replicas, cstate, sync,
                   syncPending, bg, deploymentRegistry>>
    /\ UNCHANGED <<labelVars, toolVars, deployVars, notifyVars>>

\* case <-certRefreshTicker.C: SyncDomains of the current watcher, called
\* in the loop; it waits for the watcher's domainMutex
CertRefreshTick ==
    /\ loop = "running"
    /\ SelectEnters
    /\ sync.pc = "idle"
    /\ LET synced == SyncDomains(ManagerState, knownDomains, GetAllDomains)
       IN  IF ~noTLS /\ certManager # "nil"
           THEN /\ CanStart(GetAllDomains \ knownDomains, ex)
                /\ mDomains' = synced.domains
                /\ ex' = synced.ex
                /\ knownDomains' = synced.known
           ELSE UNCHANGED <<mDomains, ex, knownDomains>>
    /\ UNCHANGED <<certManager, certFiles, daysLeft, lastObtain, rqueue,
                   mCancelled, socketOpened>>
    /\ UNCHANGED <<dryRun, noTLS, labelScheme, replicas, loop, cstate,
                   providerContainers, domainWatcher, sync, syncPending,
                   hostsMap, backends, bg, deploymentRegistry>>
    /\ UNCHANGED <<labelVars, toolVars, deployVars, notifyVars>>

\* The loop, the blue-green goroutines and the domain watcher.  The manager's
\* own goroutines (CertRun) write certVars only and read nothing of the
\* proxy or the registry; they run in SpecCert and SpecDryRun.
MonNext ==
    \/ LoopPanic
    \/ Shutdown
    \/ \E c \in MonContainers : StartEvent(c)
    \/ \E c \in MonContainers : DieEvent(c)
    \/ \E c \in MonContainers : BGFind(c)
    \/ \E c \in MonContainers : BGConfigure(c)
    \/ \E c \in MonContainers : BGHealth(c)
    \/ \E c \in MonContainers : BGSwitch(c)
    \/ \E c \in MonContainers : BGDrain(c)
    \/ \E c \in MonContainers : BGRemoveOld(c)
    \/ \E c \in MonContainers : BGRegister(c)
    \/ SyncBegin
    \/ SyncAdd
    \/ SyncRemove

\* The loop, the provider and the domain watcher alone: container events and
\* the SyncDomains goroutines they start.
ProviderInit == MonInit /\ ~dryRun

ProviderNext ==
    \/ LoopPanic
    \/ Shutdown
    \/ \E c \in MonContainers : StartEvent(c)
    \/ \E c \in MonContainers : DieEvent(c)
    \/ SyncBegin
    \/ SyncAdd
    \/ SyncRemove

\* The loop with its two tickers and the domain watcher.  The blue-green
\* goroutines write the proxy and the registry only, which neither the
\* provider nor the watcher reads; they run in SpecMonitor.
RefreshInit == MonInit /\ ~replicas

RefreshNext ==
    \/ LoopPanic
    \/ Shutdown
    \/ \E c \in MonContainers : StartEvent(c)
    \/ \E c \in MonContainers : DieEvent(c)
    \/ RefreshTick
    \/ CertRefreshTick
    \/ SyncBegin
    \/ SyncAdd
    \/ SyncRemove

\* The process in dry-run mode with the manager's goroutines: ExecuteBlueGreen
\* returns at its first statement, so of the blue-green steps only BGFind and
\* BGRegister exist.  The two tickers of the loop run in SpecRefresh.
DryRunInit == MonInit /\ dryRun /\ ~replicas

DryRunNext ==
    \/ LoopPanic
    \/ Shutdown
    \/ \E c \in MonContainers : StartEvent(c)
    \/ \E c \in MonContainers : DieEvent(c)
    \/ \E c \in MonContainers : BGFind(c)
    \/ \E c \in MonContainers : BGRegister(c)
    \/ SyncBegin
    \/ SyncAdd
    \/ SyncRemove
    \/ CertRun

(***************************************************************************)
(* The deployer: PruneOldContainers (internal/deploy/cleanup.go)           *)
(***************************************************************************)

\* container IDs are strings of hex digits; `docker run -d` prints all of
\* them, `docker ps --format {{.ID}}` the first ones
ShortIDLen == 2
MaxAppContainers == 3
MaxKeepCount == 2

\* the full ID of the app's k-th container
ContainerID(k) == FormatInt(k) \o <<"f", "0", "a", "7">>
\* the deployment ID of the app's k-th generation, a timestamp
GenerationID(k) == <<"2", "0">> \o FormatInt(k)

\* the {{.ID}} column of docker ps
TruncateID(id) == SubSeq(id, 1, ShortIDLen)

Reverse(seq) == [k \in 1..Len(seq) |-> seq[Len(seq) + 1 - k]]

\* sort.Slice(oldContainers, DeploymentID greater first)
RECURSIVE SortNewestFirst(_)
SortNewestFirst(infos) ==
    IF infos = <<>> THEN <<>>
    ELSE LET top == CHOOSE k \in 1..Len(infos) :
                        \A j \in 1..Len(infos) :
                            ~LexLess(infos[k].DeploymentID, infos[j].DeploymentID)
             rest == [j \in 1..(Len(infos) - 1) |->
                        IF j < top THEN infos[j] ELSE infos[j + 1]]
         IN <<infos[top]>> \o SortNewestFirst(rest)

\* `if c.ID == newContainerID { continue }`
FilterOld(infos, newID) ==
    SelectSeq(infos, LAMBDA c : c.ID # newID)

\* the app's containers when DeployApp reaches PruneOldContainers: n
\* generations, the newest one just started; a previous one still runs if
\* its `docker stop` failed
PruneInit ==
    /\ \E n \in 1..MaxAppContainers, running \in [1..MaxAppContainers -> BOOLEAN],
          newestFirst \in BOOLEAN :
        LET made == [k \in 1..n |->
                        [ID |-> ContainerID(k),
                         DeploymentID |-> GenerationID(k),
                         running |-> (k = n \/ running[k])]]
        IN /\ \A k \in 1..MaxAppContainers : k >= n => running[k]
           /\ appContainers = IF newestFirst THEN Reverse(made) ELSE made
           /\ newContainerID = ContainerID(n)
    /\ keepCount \in 0..MaxKeepCount
    /\ pruneInfos = <<>>
    /\ oldContainers = <<>>
    /\ rmTried = {}
    /\ pidx = 1
    /\ ppc = "list"

PruneIdle ==
    /\ appContainers = <<>>
    /\ newContainerID = <<>>
    /\ keepCount = 0
    /\ pruneInfos = <<>>
    /\ oldContainers = <<>>
    /\ rmTried = {}
    /\ pidx = 1
    /\ ppc = "idle"


\* docker ps -a --filter label=turkis.appName=<app> --format {{.ID}}
PruneList ==
    /\ ppc = "list"
    /\ \E ok \in BOOLEAN : ppc' = IF ok THEN "inspect" ELSE "failed"
    /\ UNCHANGED <<appContainers, newContainerID, keepCount, pruneInfos,
                   oldContainers, rmTried, pidx>>
    /\ UNCHANGED <<coreVars, initVars, listenVars, lateVars>>

\* one iteration of `for _, id := range ids`: docker inspect of the label
PruneInspect ==
    /\ ppc = "inspect"
    /\ IF pidx > Len(appContainers)
       THEN /\ ppc' = "select"
            /\ UNCHANGED <<pruneInfos, pidx>>
       ELSE /\ \E ok \in BOOLEAN :
                 pruneInfos' =
                    IF ok
                    THEN Append(pruneInfos,
                            [ID |-> TruncateID(appContainers[pidx].ID),
                             DeploymentID |-> appContainers[pidx].DeploymentID])
                    ELSE pruneInfos
            /\ pidx' = pidx + 1
            /\ UNCHANGED ppc
    /\ UNCHANGED <<appContainers, newContainerID, keepCount, oldContainers,
                   rmTried>>
    /\ UNCHANGED <<coreVars, initVars, listenVars, lateVars>>

\* the filter on newContainerID, the sort and the test against keepCount
PruneSelect ==
    /\ ppc = "select"
    /\ oldContainers' = SortNewestFirst(FilterOld(pruneInfos, newContainerID))
    /\ ppc' = IF Len(oldContainers') <= keepCount THEN "done" ELSE "remove"
    /\ pidx' = keepCount + 1
    /\ UNCHANGED <<appContainers, newContainerID, keepCount, pruneInfos,
                   rmTried>>
    /\ UNCHANGED <<coreVars, initVars, listenVars, lateVars>>

\* one iteration of `for _, c := range oldContainers[keepCount:]`: docker rm,
\* which removes a container that is not running
PruneRemove ==
    /\ ppc = "remove"
    /\ IF pidx > Len(oldContainers)
       THEN /\ ppc' = "done"
            /\ UNCHANGED <<appContainers, rmTried, pidx>>
       ELSE /\ rmTried' = rmTried \cup {oldContainers[pidx].ID}
            /\ \E ok \in BOOLEAN :
                 appContainers' =
                    IF ok
                    THEN SelectSeq(appContainers,
                            LAMBDA c : c.running
                                       \/ TruncateID(c.ID) # oldContainers[pidx].ID)
                    ELSE appContainers
            /\ pidx' = pidx + 1
            /\ UNCHANGED ppc
    /\ UNCHANGED <<newContainerID, keepCount, pruneInfos, oldContainers>>
    /\ UNCHANGED <<coreVars, initVars, listenVars, lateVars>>

PruneNext == PruneList \/ PruneInspect \/ PruneSelect \/ PruneRemove

(***************************************************************************)
(* init command: copyConfigTemplateFiles writes apps.yml and haproxy.cfg   *)
(***************************************************************************)

MaxPrevBackends == 2

\* the rendered templates, as the sequence of their sections
ConfigFileSections == <<"tls", "apps">>
HAProxyConfigSections ==
    <<"global", "defaults", "frontend http-in", "frontend https-in",
      "backend acme_challenge", "backend default_backend">>

\* a haproxy.cfg written earlier, with k application backends
PreviousHAProxyConfig(k) ==
    SubSeq(HAProxyConfigSections, 1, 4)
        \o [i \in 1..k |-> "backend app"]
        \o SubSeq(HAProxyConfigSections, 5, 6)

\* os.WriteFile opens with O_WRONLY|O_CREATE|O_TRUNC
OpenTrunc(file) == <<>>

\* what a file holds once n sections of data went through write(2)
Written(data, n) == SubSeq(data, 1, n)

InitCmdInit ==
    /\ \E k \in 0..MaxPrevBackends, absent \in BOOLEAN :
          haproxyCfgOnDisk =
              IF absent THEN <<>> ELSE PreviousHAProxyConfig(k)
    /\ preHAProxyCfg = haproxyCfgOnDisk
    /\ configOnDisk \in {<<>>, ConfigFileSections, <<"tls", "apps", "app">>}
    /\ written = 0
    /\ ipc = "config"

InitCmdIdle ==
    /\ haproxyCfgOnDisk = <<>>
    /\ preHAProxyCfg = <<>>
    /\ configOnDisk = <<>>
    /\ written = 0
    /\ ipc = "idle"

\* os.WriteFile(configFilePath, ...): OpenFile
OpenConfigFile ==
    /\ ipc = "config"
    /\ \E ok \in BOOLEAN :
          IF ok
          THEN /\ configOnDisk' = OpenTrunc(configOnDisk)
               /\ ipc' = "configWrite"
          ELSE /\ ipc' = "failed"
               /\ UNCHANGED configOnDisk
    /\ UNCHANGED <<haproxyCfgOnDisk, preHAProxyCfg, written>>
    /\ UNCHANGED <<coreVars, pruneVars, listenVars, lateVars>>

\* os.WriteFile(configFilePath, ...): Write and Close
WriteConfigFile ==
    /\ ipc = "configWrite"
    /\ IF written = Len(ConfigFileSections)
       THEN /\ ipc' = "haproxy"
            /\ written' = 0
            /\ UNCHANGED configOnDisk
       ELSE /\ \E n \in (written + 1)..Len(ConfigFileSections) :
                 /\ written' = n
                 /\ configOnDisk' = Written(ConfigFileSections, n)
            /\ UNCHANGED ipc
    /\ UNCHANGED <<haproxyCfgOnDisk, preHAProxyCfg>>
    /\ UNCHANGED <<coreVars, pruneVars, listenVars, lateVars>>

\* os.WriteFile(haproxyConfigFilePath, ...): OpenFile
OpenHAProxyConfigFile ==
    /\ ipc = "haproxy"
    /\ \E ok \in BOOLEAN :
          IF ok
          THEN /\ haproxyCfgOnDisk' = OpenTrunc(haproxyCfgOnDisk)
               /\ ipc' = "haproxyWrite"
          ELSE /\ ipc' = "failed"
               /\ UNCHANGED haproxyCfgOnDisk
    /\ UNCHANGED <<configOnDisk, preHAProxyCfg, written>>
    /\ UNCHANGED <<coreVars, pruneVars, listenVars, lateVars>>

\* os.WriteFile(haproxyConfigFilePath, ...): Write and Close
WriteHAProxyConfigFile ==
    /\ ipc = "haproxyWrite"
    /\ IF written = Len(HAProxyConfigSections)
       THEN /\ ipc' = "done"
            /\ UNCHANGED <<haproxyCfgOnDisk, written>>
       ELSE /\ \E n \in (written + 1)..Len(HAProxyConfigSections) :
                 /\ written' = n
                 /\ haproxyCfgOnDisk' = Written(HAProxyConfigSections, n)
            /\ UNCHANGED ipc
    /\ UNCHANGED <<configOnDisk, preHAProxyCfg>>
    /\ UNCHANGED <<coreVars, pruneVars, listenVars, lateVars>>

\* the process is killed (or the write fails) between two system calls
InitCmdCrash ==
    /\ ipc \in {"config", "configWrite", "haproxy", "haproxyWrite"}
    /\ ipc' = "crashed"
    /\ UNCHANGED <<haproxyCfgOnDisk, preHAProxyCfg, configOnDisk, written>>
    /\ UNCHANGED <<coreVars, pruneVars, listenVars, lateVars>>

InitCmdNext ==
    \/ OpenConfigFile
    \/ WriteConfigFile
    \/ OpenHAProxyConfigFile
    \/ WriteHAProxyConfigFile
    \/ InitCmdCrash


(***************************************************************************)
(* listenForDockerEvents: the goroutine forwarding Docker events           *)
(***************************************************************************)

MaxForwarded == 2
MaxSubscriptions == 3

EventActions == {"start", "die", "stop", "kill", "create"}
HandledActions == {"start", "die", "stop", "kill"}

\* what the errs channel of dockerClient.Events delivers
EventErrors == {"nil", "EOF", "connection refused", "unexpected EOF"}

\* err != io.EOF && !strings.Contains(err.Error(), "connection refused")
Reconnects(err) == err # "EOF" /\ err # "connection refused"

ListenInit ==
    /\ listenPc = "select"
    /\ subscriptions = 1
    /\ eventsChan = <<>>
    /\ errorsChan = <<>>

ListenIdle ==
    /\ listenPc = "idle"
    /\ subscriptions = 0
    /\ eventsChan = <<>>
    /\ errorsChan = <<>>

\* case <-ctx.Done(): return
ListenCtxDone ==
    /\ listenPc = "select"
    /\ listenPc' = "returned"
    /\ UNCHANGED <<subscriptions, eventsChan, errorsChan>>
    /\ UNCHANGED <<coreVars, pruneVars, initVars, lateVars>>

\* case event := <-events
ListenEvent ==
    /\ listenPc = "select"
    /\ Len(eventsChan) < MaxForwarded
    /\ \E action \in EventActions, inspectOk \in BOOLEAN, eligible \in BOOLEAN :
          eventsChan' = IF action \in HandledActions /\ inspectOk /\ eligible
                        THEN Append(eventsChan, action)
                        ELSE eventsChan
    /\ UNCHANGED <<listenPc, subscriptions, errorsChan>>
    /\ UNCHANGED <<coreVars, pruneVars, initVars, lateVars>>

\* case err := <-errs
ListenError ==
    /\ listenPc = "select"
    /\ \E err \in EventErrors :
          IF err = "nil"
          THEN /\ listenPc' = "returned"
               /\ UNCHANGED errorsChan
          ELSE /\ errorsChan' = Append(errorsChan, err)
               /\ listenPc' = IF Reconnects(err) THEN "sleep" ELSE "returned"
    /\ UNCHANGED <<subscriptions, eventsChan>>
    /\ UNCHANGED <<coreVars, pruneVars, initVars, lateVars>>

\* time.Sleep(5 * time.Second); events, errs = dockerClient.Events(...)
ListenResubscribe ==
    /\ listenPc = "sleep"
    /\ subscriptions < MaxSubscriptions
    /\ subscriptions' = subscriptions + 1
    /\ listenPc' = "select"
    /\ UNCHANGED <<eventsChan, errorsChan>>
    /\ UNCHANGED <<coreVars, pruneVars, initVars, lateVars>>

ListenNext ==
    \/ ListenCtxDone
    \/ ListenEvent
    \/ ListenError
    \/ ListenResubscribe


(***************************************************************************)
(* haproxy.Client.SendCommand: one command over the admin socket           *)
(***************************************************************************)

\* the commands the client sends
AdminCommands ==
    {"show map", "add map", "del map", "add server", "set server",
     "del server"}

\* what the peer of the socket does with one connection: no listener, the
\* connection reset at the write, an answer, the connection closed without
\* an answer, or an accepted connection that is never answered
ProxyBehaviours == {"down", "resets", "answers", "closes", "silent"}

SendInit ==
    /\ sendCommand \in AdminCommands
    /\ clientDryRun \in BOOLEAN
    /\ proxyBehaviour \in ProxyBehaviours
    /\ sendPc = "call"
    /\ sendRet = [response |-> "", err |-> ""]

SendIdle ==
    /\ sendCommand = ""
    /\ clientDryRun = FALSE
    /\ proxyBehaviour = "down"
    /\ sendPc = "idle"
    /\ sendRet = [response |-> "", err |-> ""]

SendUnchanged ==
    /\ UNCHANGED <<sendCommand, clientDryRun, proxyBehaviour>>
    /\ UNCHANGED <<coreVars, pruneVars, initVars, listenVars>>
    /\ UNCHANGED <<keyVars, lockVars>>

\* if c.dryRun { return ... }; conn, err := net.Dial("unix", c.socketPath)
SendDial ==
    /\ sendPc = "call"
    /\ IF clientDryRun
       THEN /\ sendRet' = [response |-> "[DRY RUN] Command not actually sent",
                           err |-> ""]
            /\ sendPc' = "returned"
       ELSE IF proxyBehaviour = "down"
       THEN /\ sendRet' = [response |-> "",
                           err |-> "could not connect to HAProxy socket"]
            /\ sendPc' = "returned"
       ELSE /\ sendPc' = "write"
            /\ UNCHANGED sendRet
    /\ SendUnchanged

\* conn.Write([]byte(command + "\n"))
SendWrite ==
    /\ sendPc = "write"
    /\ IF proxyBehaviour = "resets"
       THEN /\ sendRet' = [response |-> "",
                           err |-> "error sending command to HAProxy"]
            /\ sendPc' = "returned"
       ELSE /\ sendPc' = "read"
            /\ UNCHANGED sendRet
    /\ SendUnchanged

\* n, err := conn.Read(buf): returns when the peer sent bytes or closed the
\* connection; the connection carries no deadline
SendRead ==
    /\ sendPc = "read"
    /\ proxyBehaviour \in {"answers", "closes"}
    /\ sendRet' = IF proxyBehaviour = "answers"
                  THEN [response |-> sendCommand, err |-> ""]
                  ELSE [response |-> "",
                        err |-> "error reading from HAProxy socket"]
    /\ sendPc' = "returned"
    /\ SendUnchanged

SendNext == SendDial \/ SendWrite \/ SendRead

(***************************************************************************)
(* KeyManager.LoadOrCreateKey: the ACME account key of one email           *)
(***************************************************************************)

MaxKeyCallers == 2
MaxGeneratedKeys == 3

KeyCallers == 1..MaxKeyCallers
\* the keys ecdsa.GenerateKey can return, told apart by a number
AccountKeys == 1..MaxGeneratedKeys

NoKey == 0
\* the key file: missing, created and empty, or holding the PEM of a key
AbsentFile == [exists |-> FALSE, key |-> NoKey]
EmptyFile == [exists |-> TRUE, key |-> NoKey]
KeyFile(k) == [exists |-> TRUE, key |-> k]
KeyCallIdle == [pc |-> "idle", key |-> NoKey, err |-> FALSE]

KeyInit ==
    /\ keyOnDisk \in {AbsentFile, KeyFile(1)}
    /\ generated = keyOnDisk.key
    /\ keyCalls = [p \in KeyCallers |-> KeyCallIdle]

KeyIdle ==
    /\ keyOnDisk = AbsentFile
    /\ generated = 0
    /\ keyCalls = [p \in KeyCallers |-> KeyCallIdle]

KeyUnchanged ==
    /\ UNCHANGED <<coreVars, pruneVars, initVars, listenVars>>
    /\ UNCHANGED <<sendVars, lockVars>>

\* LoadOrCreateKey(email) is called, in this process or another
KeyCall(p) ==
    /\ keyCalls[p].pc \in {"idle", "returned"}
    /\ keyCalls' = [keyCalls EXCEPT ![p] = [pc |-> "stat", key |-> NoKey,
                                            err |-> FALSE]]
    /\ UNCHANGED <<keyOnDisk, generated>>
    /\ KeyUnchanged

\* if _, err := os.Stat(keyPath); err == nil { load } else { create }
KeyStat(p) ==
    /\ keyCalls[p].pc = "stat"
    /\ \E statErr \in BOOLEAN :
          keyCalls' = [keyCalls EXCEPT ![p].pc =
                          IF keyOnDisk.exists /\ ~statErr
                          THEN "load" ELSE "generate"]
    /\ UNCHANGED <<keyOnDisk, generated>>
    /\ KeyUnchanged

\* loadKey: os.ReadFile, pem.Decode, x509.ParseECPrivateKey
KeyLoad(p) ==
    /\ keyCalls[p].pc = "load"
    /\ \E readOk \in BOOLEAN :
          keyCalls' = [keyCalls EXCEPT ![p] =
                          IF readOk /\ keyOnDisk.key \in AccountKeys
                          THEN [pc |-> "returned", key |-> keyOnDisk.key,
                                err |-> FALSE]
                          ELSE [pc |-> "returned", key |-> NoKey,
                                err |-> TRUE]]
    /\ UNCHANGED <<keyOnDisk, generated>>
    /\ KeyUnchanged

\* createKey: ecdsa.GenerateKey returns a key never seen before
KeyGenerate(p) ==
    /\ keyCalls[p].pc = "generate"
    /\ generated < MaxGeneratedKeys
    /\ generated' = generated + 1
    /\ keyCalls' = [keyCalls EXCEPT ![p] = [pc |-> "open",
                                            key |-> generated + 1,
                                            err |-> FALSE]]
    /\ UNCHANGED keyOnDisk
    /\ KeyUnchanged

\* createKey: os.OpenFile(path, O_WRONLY|O_CREATE|O_TRUNC, 0600)
KeyOpen(p) ==
    /\ keyCalls[p].pc = "open"
    /\ \E ok \in BOOLEAN :
          IF ok
          THEN /\ keyOnDisk' = EmptyFile
               /\ keyCalls' = [keyCalls EXCEPT ![p].pc = "encode"]
          ELSE /\ keyCalls' = [keyCalls EXCEPT ![p] =
                                  [pc |-> "returned", key |-> NoKey,
                                   err |-> TRUE]]
               /\ UNCHANGED keyOnDisk
    /\ UNCHANGED generated
    /\ KeyUnchanged

\* createKey: pem.Encode(keyFile, pemBlock)
KeyEncode(p) ==
    /\ keyCalls[p].pc = "encode"
    /\ \E ok \in BOOLEAN :
          IF ok
          THEN /\ keyOnDisk' = KeyFile(keyCalls[p].key)
               /\ keyCalls' = [keyCalls EXCEPT ![p].pc = "returned"]
          ELSE /\ keyCalls' = [keyCalls EXCEPT ![p] =
                                  [pc |-> "returned", key |-> NoKey,
                                   err |-> TRUE]]
               /\ UNCHANGED keyOnDisk
    /\ UNCHANGED generated
    /\ KeyUnchanged

KeyNext ==
    \/ \E p \in KeyCallers : KeyCall(p)
    \/ \E p \in KeyCallers : KeyStat(p)
    \/ \E p \in KeyCallers : KeyLoad(p)
    \/ \E p \in KeyCallers : KeyGenerate(p)
    \/ \E p \in KeyCallers : KeyOpen(p)
    \/ \E p \in KeyCallers : KeyEncode(p)

(***************************************************************************)
(* The three locks of the certificate subsystem: DomainWatcher.domainMutex *)
(* (a sync.Mutex), DomainProviderImpl.containerMutex and                   *)
(* Manager.domainMutex (both sync.RWMutex), and the operations that take   *)
(* them, run by any number of goroutines at once.  A sync.RWMutex gives a  *)
(* writer that has announced itself precedence over readers arriving       *)
(* later; readers that arrived while a writer was present are admitted     *)
(* together when that writer unlocks.                                      *)
(***************************************************************************)
MaxLockThreads == 3
MaxLockedCalls == 2
MaxObtainGoroutines == 1
LockThreads == 1..MaxLockThreads
LockOps == {"SyncDomains", "AddContainer", "RemoveContainer", "checkRenewals"}
ManagerCalls == {"AddDomain", "RemoveDomain"}
\* a: the writer that announced itself, w: the writer holding the lock,
\* r: the readers holding the lock, q: the readers waiting for the writer
FreeRWMutex == [a |-> {}, w |-> {}, r |-> {}, q |-> {}]
LockThreadIdle == [op |-> "none", pc |-> "idle", todo |-> 0, call |-> "none"]

CanRLock(mu, t) ==
    t \in mu.r \/ (t \notin mu.q /\ mu.a = {} /\ mu.w = {})
MustWaitRLock(mu, t) ==
    t \notin mu.r /\ t \notin mu.q /\ (mu.a # {} \/ mu.w # {})
RLocked(mu, t) == [mu EXCEPT !.r = @ \cup {t}]
RQueued(mu, t) == [mu EXCEPT !.q = @ \cup {t}]
RUnlocked(mu, t) == [mu EXCEPT !.r = @ \ {t}]
CanAnnounce(mu, t) == mu.a = {} /\ mu.w = {}
Announced(mu, t) == [mu EXCEPT !.a = {t}]
CanLock(mu, t) == mu.a = {t} /\ mu.r = {}
Locked(mu, t) == [mu EXCEPT !.a = {}, !.w = {t}]
Unlocked(mu, t) == [mu EXCEPT !.w = {}, !.r = @ \cup mu.q, !.q = {}]

LockInit ==
    /\ lk = [t \in LockThreads |-> LockThreadIdle]
    /\ watcherMutex = {}
    /\ containerMutex = FreeRWMutex
    /\ managerMutex = FreeRWMutex
    /\ obtainGoroutines = 0

LockIdle == LockInit

LockUnchanged ==
    /\ UNCHANGED <<coreVars, pruneVars, initVars, listenVars>>
    /\ UNCHANGED <<sendVars, keyVars>>

\* a goroutine calls one of the operations
LockStart(t) ==
    /\ lk[t].pc = "idle"
    /\ \E op \in LockOps :
          lk' = [lk EXCEPT ![t] =
                    [op |-> op,
                     pc |-> CASE op = "SyncDomains" -> "dwLock"
                              [] op = "checkRenewals" -> "crRLock"
                              [] OTHER -> "dpLock",
                     todo |-> 0, call |-> "none"]]
    /\ UNCHANGED <<watcherMutex, containerMutex, managerMutex,
                   obtainGoroutines>>
    /\ LockUnchanged

\* SyncDomains: dw.domainMutex.Lock()
SyncDomainsLock(t) ==
    /\ lk[t].pc = "dwLock"
    /\ watcherMutex = {}
    /\ watcherMutex' = {t}
    /\ lk' = [lk EXCEPT ![t].pc = "getRLock"]
    /\ UNCHANGED <<containerMutex, managerMutex, obtainGoroutines>>
    /\ LockUnchanged

\* GetAllDomains: dp.containerMutex.RLock()
GetAllDomainsRLock(t) ==
    /\ lk[t].pc = "getRLock"
    /\ \/ /\ CanRLock(containerMutex, t)
          /\ containerMutex' = RLocked(containerMutex, t)
          /\ lk' = [lk EXCEPT ![t].pc = "getBody"]
       \/ /\ MustWaitRLock(containerMutex, t)
          /\ containerMutex' = RQueued(containerMutex, t)
          /\ UNCHANGED lk
    /\ UNCHANGED <<watcherMutex, managerMutex, obtainGoroutines>>
    /\ LockUnchanged

\* GetAllDomains: the domains are collected, the deferred RUnlock runs; the
\* caller will make up to MaxLockedCalls calls of AddDomain / RemoveDomain
MutGetAllDomainsKeepsRLock(t) ==
    /\ lk[t].pc = "getBody"
    /\ \E n \in 0..MaxLockedCalls :
          lk' = [lk EXCEPT ![t].pc = "dwLoop", ![t].todo = n]
    /\ UNCHANGED <<containerMutex, watcherMutex, managerMutex,
                   obtainGoroutines>>
    /\ LockUnchanged
GetAllDomainsRUnlock(t) ==
    /\ lk[t].pc = "getBody"
    /\ containerMutex' = RUnlocked(containerMutex, t)
    /\ \E n \in 0..MaxLockedCalls :
          lk' = [lk EXCEPT ![t].pc = "dwLoop", ![t].todo = n]
    /\ UNCHANGED <<watcherMutex, managerMutex, obtainGoroutines>>
    /\ LockUnchanged

\* SyncDomains: the next dw.manager.AddDomain / dw.manager.RemoveDomain
SyncDomainsCall(t) ==
    /\ lk[t].pc = "dwLoop"
    /\ lk[t].todo > 0
    /\ \E call \in ManagerCalls :
          lk' = [lk EXCEPT ![t].pc = "mLock", ![t].call = call]
    /\ UNCHANGED <<watcherMutex, containerMutex, managerMutex,
                   obtainGoroutines>>
    /\ LockUnchanged

\* AddDomain / RemoveDomain: m.domainMutex.Lock()
ManagerLock(t) ==
    /\ lk[t].pc = "mLock"
    /\ \/ /\ t \notin managerMutex.a
          /\ CanAnnounce(managerMutex, t)
          /\ managerMutex' = Announced(managerMutex, t)
          /\ UNCHANGED lk
       \/ /\ CanLock(managerMutex, t)
          /\ managerMutex' = Locked(managerMutex, t)
          /\ lk' = [lk EXCEPT ![t].pc = "mBody"]
    /\ UNCHANGED <<watcherMutex, containerMutex, obtainGoroutines>>
    /\ LockUnchanged

\* AddDomain: the domain is known already, or it is stored and a goroutine
\* is started that obtains its certificate; the deferred Unlock runs
AddDomainUnlock(t) ==
    /\ lk[t].pc = "mBody"
    /\ lk[t].call = "AddDomain"
    /\ \E exists \in BOOLEAN :
          IF exists
          THEN UNCHANGED obtainGoroutines
          ELSE /\ obtainGoroutines < MaxObtainGoroutines
               /\ obtainGoroutines' = obtainGoroutines + 1
    /\ managerMutex' = Unlocked(managerMutex, t)
    /\ lk' = [lk EXCEPT ![t].pc = "dwLoop", ![t].todo = @ - 1,
                        ![t].call = "none"]
    /\ UNCHANGED <<watcherMutex, containerMutex>>
    /\ LockUnchanged

\* RemoveDomain: delete(m.domains, domainName); the deferred Unlock runs
RemoveDomainUnlock(t) ==
    /\ lk[t].pc = "mBody"
    /\ lk[t].call = "RemoveDomain"
    /\ managerMutex' = Unlocked(managerMutex, t)
    /\ lk' = [lk EXCEPT ![t].pc = "dwLoop", ![t].todo = @ - 1,
                        ![t].call = "none"]
    /\ UNCHANGED <<watcherMutex, containerMutex, obtainGoroutines>>
    /\ LockUnchanged

\* SyncDomains returns: the deferred dw.domainMutex.Unlock() runs
SyncDomainsUnlock(t) ==
    /\ lk[t].pc = "dwLoop"
    /\ lk[t].todo = 0
    /\ watcherMutex' = watcherMutex \ {t}
    /\ lk' = [lk EXCEPT ![t] = LockThreadIdle]
    /\ UNCHANGED <<containerMutex, managerMutex, obtainGoroutines>>
    /\ LockUnchanged

\* AddContainer / RemoveContainer: dp.containerMutex.Lock()
ProviderLock(t) ==
    /\ lk[t].pc = "dpLock"
    /\ \/ /\ t \notin containerMutex.a
          /\ CanAnnounce(containerMutex, t)
          /\ containerMutex' = Announced(containerMutex, t)
          /\ UNCHANGED lk
       \/ /\ CanLock(containerMutex, t)
          /\ containerMutex' = Locked(containerMutex, t)
          /\ lk' = [lk EXCEPT ![t].pc = "dpBody"]
    /\ UNCHANGED <<watcherMutex, managerMutex, obtainGoroutines>>
    /\ LockUnchanged

\* AddContainer / RemoveContainer: the map is updated, the deferred Unlock
\* runs
ProviderUnlock(t) ==
    /\ lk[t].pc = "dpBody"
    /\ containerMutex' = Unlocked(containerMutex, t)
    /\ lk' = [lk EXCEPT ![t] = LockThreadIdle]
    /\ UNCHANGED <<watcherMutex, managerMutex, obtainGoroutines>>
    /\ LockUnchanged

\* checkRenewals: m.domainMutex.RLock()
CheckRenewalsRLock(t) ==
    /\ lk[t].pc = "crRLock"
    /\ \/ /\ CanRLock(managerMutex, t)
          /\ managerMutex' = RLocked(managerMutex, t)
          /\ lk' = [lk EXCEPT ![t].pc = "crCopy"]
       \/ /\ MustWaitRLock(managerMutex, t)
          /\ managerMutex' = RQueued(managerMutex, t)
          /\ UNCHANGED lk
    /\ UNCHANGED <<watcherMutex, containerMutex, obtainGoroutines>>
    /\ LockUnchanged

\* checkRenewals: the domains are copied to a slice, m.domainMutex.RUnlock()
MutCheckRenewalsKeepsRLock(t) ==
    /\ lk[t].pc = "crCopy"
    /\ \E n \in 0..MaxLockedCalls :
          lk' = [lk EXCEPT ![t].pc = "crLoop", ![t].todo = n]
    /\ UNCHANGED <<managerMutex, watcherMutex, containerMutex,
                   obtainGoroutines>>
    /\ LockUnchanged
CheckRenewalsRUnlock(t) ==
    /\ lk[t].pc = "crCopy"
    /\ managerMutex' = RUnlocked(managerMutex, t)
    /\ \E n \in 0..MaxLockedCalls :
          lk' = [lk EXCEPT ![t].pc = "crLoop", ![t].todo = n]
    /\ UNCHANGED <<watcherMutex, containerMutex, obtainGoroutines>>
    /\ LockUnchanged

\* checkRenewals: the next domain of the slice needs a certificate:
\* obtainCertificate begins (ACME request, file writes, proxy socket)
CheckRenewalsObtain(t) ==
    /\ lk[t].pc = "crLoop"
    /\ lk[t].todo > 0
    /\ lk' = [lk EXCEPT ![t].pc = "obtain"]
    /\ UNCHANGED <<watcherMutex, containerMutex, managerMutex,
                   obtainGoroutines>>
    /\ LockUnchanged

\* obtainCertificate returns to the loop of checkRenewals
CheckRenewalsObtained(t) ==
    /\ lk[t].pc = "obtain"
    /\ lk' = [lk EXCEPT ![t].pc = "crLoop", ![t].todo = @ - 1]
    /\ UNCHANGED <<watcherMutex, containerMutex, managerMutex,
                   obtainGoroutines>>
    /\ LockUnchanged

\* checkRenewals returns
CheckRenewalsReturn(t) ==
    /\ lk[t].pc = "crLoop"
    /\ lk[t].todo = 0
    /\ lk' = [lk EXCEPT ![t] = LockThreadIdle]
    /\ UNCHANGED <<watcherMutex, containerMutex, managerMutex,
                   obtainGoroutines>>
    /\ LockUnchanged

\* the goroutine started by AddDomain ends (with or without obtaining)
GoObtained ==
    /\ obtainGoroutines > 0
    /\ obtainGoroutines' = obtainGoroutines - 1
    /\ UNCHANGED <<lk, watcherMutex, containerMutex, managerMutex>>
    /\ LockUnchanged

\* the steps of goroutine t inside an operation
LockStep(t) ==
    \/ SyncDomainsLock(t)
    \/ GetAllDomainsRLock(t)
    \/ GetAllDomainsRUnlock(t)
    \/ SyncDomainsCall(t)
    \/ ManagerLock(t)
    \/ AddDomainUnlock(t)
    \/ RemoveDomainUnlock(t)
    \/ SyncDomainsUnlock(t)
    \/ ProviderLock(t)
    \/ ProviderUnlock(t)
    \/ CheckRenewalsRLock(t)
    \/ CheckRenewalsRUnlock(t)
    \/ CheckRenewalsObtain(t)
    \/ CheckRenewalsObtained(t)
    \/ CheckRenewalsReturn(t)

LockNext ==
    \/ \E t \in LockThreads : LockStart(t)
    \/ \E t \in LockThreads : SyncDomainsLock(t)
    \/ \E t \in LockThreads : GetAllDomainsRLock(t)
    \/ \E t \in LockThreads : GetAllDomainsRUnlock(t)
    \/ \E t \in LockThreads : SyncDomainsCall(t)
    \/ \E t \in LockThreads : ManagerLock(t)
    \/ \E t \in LockThreads : AddDomainUnlock(t)
    \/ \E t \in LockThreads : RemoveDomainUnlock(t)
    \/ \E t \in LockThreads : SyncDomainsUnlock(t)
    \/ \E t \in LockThreads : ProviderLock(t)
    \/ \E t \in LockThreads : ProviderUnlock(t)
    \/ \E t \in LockThreads : CheckRenewalsRLock(t)
    \/ \E t \in LockThreads : CheckRenewalsRUnlock(t)
    \/ \E t \in LockThreads : CheckRenewalsObtain(t)
    \/ \E t \in LockThreads : CheckRenewalsObtained(t)
    \/ \E t \in LockThreads : CheckRenewalsReturn(t)
    \/ GoObtained

LateIdle == SendIdle /\ KeyIdle /\ LockIdle
CoreIdle == LabelIdle /\ DeployIdle /\ NotifyIdle /\ CertIdle /\ MonIdle
ToolIdle == PruneIdle /\ InitCmdIdle /\ ListenIdle /\ LateIdle

(***************************************************************************)
(* Specifications                                                          *)
(***************************************************************************)

\* every specification starts the other subsystems in their idle state
InitLabels == LabelInit /\ DeployIdle /\ NotifyIdle /\ CertIdle /\ MonIdle /\ ToolIdle
InitDeployments == DeployInit /\ LabelIdle /\ NotifyIdle /\ CertIdle /\ MonIdle /\ ToolIdle
InitNotify == NotifyInit /\ LabelIdle /\ DeployIdle /\ CertIdle /\ MonIdle /\ ToolIdle
InitCert == CertInit /\ LabelIdle /\ DeployIdle /\ NotifyIdle /\ MonIdle /\ ToolIdle
InitMonitor == MonInit /\ CertIdle /\ LabelIdle /\ DeployIdle /\ NotifyIdle /\ ToolIdle
InitRenewal == RenewalInit /\ LabelIdle /\ DeployIdle /\ NotifyIdle /\ MonIdle /\ ToolIdle
InitRefresh == RefreshInit /\ CertIdle /\ LabelIdle /\ DeployIdle /\ NotifyIdle /\ ToolIdle
InitDryRun == DryRunInit /\ CertIdle /\ LabelIdle /\ DeployIdle /\ NotifyIdle /\ ToolIdle

SpecLabels == InitLabels /\ [][LabelNext]_vars

SpecDeployments == InitDeployments /\ [][DeployNext]_vars

SpecNotify == InitNotify /\ [][NotifyNext]_vars

SpecCert == InitCert /\ [][CertNext]_vars

SpecRenewal == InitRenewal /\ [][RenewalNext]_vars

SpecMonitor == InitMonitor /\ [][MonNext]_vars

SpecRefresh == InitRefresh /\ [][RefreshNext]_vars

SpecDryRun == InitDryRun /\ [][DryRunNext]_vars

InitProvider == ProviderInit /\ CertIdle /\ LabelIdle /\ DeployIdle /\ NotifyIdle /\ ToolIdle
SpecProvider == InitProvider /\ [][ProviderNext]_vars

InitRawLabels ==
    RawLabelsInit /\ DeployIdle /\ NotifyIdle /\ CertIdle /\ MonIdle /\ ToolIdle
SpecRawLabels == InitRawLabels /\ [][RawLabelsNext]_vars

InitRunContainer ==
    RunContainerInit /\ DeployIdle /\ NotifyIdle /\ CertIdle /\ MonIdle /\ ToolIdle
SpecRunContainer == InitRunContainer /\ [][LabelNext]_vars

InitPrune == PruneInit /\ CoreIdle /\ InitCmdIdle /\ ListenIdle /\ LateIdle
SpecPrune == InitPrune /\ [][PruneNext]_vars

InitInitCmd == InitCmdInit /\ CoreIdle /\ PruneIdle /\ ListenIdle /\ LateIdle
SpecInitCmd == InitInitCmd /\ [][InitCmdNext]_vars

InitListen == ListenInit /\ CoreIdle /\ PruneIdle /\ InitCmdIdle /\ LateIdle
SpecListen == InitListen /\ [][ListenNext]_vars

EarlyIdle == CoreIdle /\ PruneIdle /\ InitCmdIdle /\ ListenIdle

InitSend == SendInit /\ EarlyIdle /\ KeyIdle /\ LockIdle
SpecSend == InitSend /\ [][SendNext]_vars

InitKey == KeyInit /\ EarlyIdle /\ SendIdle /\ LockIdle
SpecKey == InitKey /\ [][KeyNext]_vars

InitLocks == LockInit /\ EarlyIdle /\ SendIdle /\ KeyIdle
SpecLocks == InitLocks /\ [][LockNext]_vars
\* the Go scheduler runs every goroutine, and a sync.Mutex or sync.RWMutex
\* hands the lock to a goroutine that keeps waiting for it
SpecLocksFair ==
    SpecLocks /\ \A t \in LockThreads : SF_vars(LockStep(t))

(***************************************************************************)
(* Claims                                                                  *)
(***************************************************************************)

\* the containers of app a that pass every check of the loop body
Eligible(a) ==
    {i \in 1..Len(containers) :
        containers[i].kind = "ok" /\ containers[i].AppName = a}

EntriesOf(a) ==
    {k \in 1..Len(deployments) : deployments[k].Labels.AppName = a}

\* C3: the slice GetDeploymentsFromRunningContainers returns holds, for every
\* app name with at least one container that has parseable labels and an IP,
\* exactly one Deployment, and its deployment ID is the lexicographically
\* greatest among those containers, whatever the order of the container list.
C3_OneEntryWithGreatestID ==
    dpc = "done" =>
        \A a \in AppNames :
            Eligible(a) # {} =>
                /\ Cardinality(EntriesOf(a)) = 1
                /\ \A k \in EntriesOf(a) :
                    /\ \E i \in Eligible(a) :
                        containers[i].DeploymentID = deployments[k].Labels.DeploymentID
                    /\ \A i \in Eligible(a) :
                        ~LexLess(deployments[k].Labels.DeploymentID,
                                 containers[i].DeploymentID)

\* the greatest ID of an app is listed before a smaller one, next to a
\* container that fails a check
C3_Witness ==
    /\ dpc = "done"
    /\ \E i, j \in 1..Len(containers) :
        /\ i < j
        /\ containers[i].kind = "ok" /\ containers[j].kind = "ok"
        /\ containers[i].AppName = containers[j].AppName
        /\ LexLess(containers[j].DeploymentID, containers[i].DeploymentID)
        /\ Len(containers[i].DeploymentID) # Len(containers[j].DeploymentID)
    /\ \E i \in 1..Len(containers) : containers[i].kind # "ok"

InstanceOf(dep, inst) ==
    /\ inst.IP \in 1..Len(containers)
    /\ containers[inst.IP].kind = "ok"
    /\ containers[inst.IP].AppName = dep.Labels.AppName
    /\ containers[inst.IP].DeploymentID = dep.Labels.DeploymentID

\* C4: in every Deployment of the aggregation (while it is built and in the
\* returned slice) each instance comes from a container whose app name and
\* deployment ID are those of the Deployment's labels; no instance of a
\* displaced older generation remains.
C4_InstanceContainment ==
    /\ \A a \in DOMAIN deploymentsMap :
        /\ deploymentsMap[a].Labels.AppName = a
        /\ \A k \in 1..Len(deploymentsMap[a].Instances) :
            InstanceOf(deploymentsMap[a], deploymentsMap[a].Instances[k])
    /\ \A n \in 1..Len(deployments) :
        \A k \in 1..Len(deployments[n].Instances) :
            InstanceOf(deployments[n], deployments[n].Instances[k])

\* two instances of an older generation were displaced by a newer container
C4_Witness ==
    /\ dpc = "done"
    /\ Len(containers) = 3
    /\ \A i \in 1..3 : containers[i].kind = "ok" /\ containers[i].AppName = "A"
    /\ containers[1].DeploymentID = containers[2].DeploymentID
    /\ LexLess(containers[2].DeploymentID, containers[3].DeploymentID)
    /\ Len(deployments) = 1
    /\ Len(deployments[1].Instances) = 1

\* C5: for every descriptor d that passes IsValid, ParseContainerLabels of
\* d.ToLabels() succeeds and returns a descriptor equal to d in every field,
\* domains and aliases in the order of d.
C5_LabelRoundTrip ==
    lpc \in {"parsed", "error"} => (lpc = "parsed" /\ cl = d)

\* the four commands of the certificate hot-reload protocol for domain D
\* with bundle file P = <certDir>/D.pem
ExpectedCommands(D) ==
    << <<"show ssl cert">>,
       <<"new ssl cert ", CertificatesDir, "/", D, ".pem">>,
       <<"set ssl cert ", D, " ", CertificatesDir, "/", D, ".pem">>,
       <<"commit ssl cert">> >>

StepFailed(outcome) ==
    \/ outcome \in {DialError, WriteError, ReadError}
    \/ \E k \in 1..Len(outcome) : outcome[k] = "Unknown command"

C1_RegistryNeverDecreases ==
    [][\A a \in AppNames :
          ~LexLess(deploymentRegistry'[a], deploymentRegistry[a])]_vars

\* C2: a start event for a container of A whose deployment ID d' is smaller
\* than the ID d the proxy routes A's domain to is ignored: the blue-green
\* goroutine of that event never switches the domain's mapping to d'.
C2_OlderStartIgnored ==
    \A c \in MonContainers :
        (bg[c].pc # "none" /\ LexLess(DeploymentOf(c), bg[c].routedAtStart))
            => ~bg[c].switched

\* the executors inside obtainCertificate for a domain
InFlight(dom) ==
    {e \in Executors : ex[e].pc \in ObtainPcs /\ ex[e].domain = dom}

\* C6: at any instant at most one obtainCertificate execution is in flight
\* for a canonical domain, counting AddDomain's goroutines and the renewal
\* loop's checkRenewals together.
C6_AtMostOneObtainPerDomain ==
    \A dom \in ManagedDomains : Cardinality(InFlight(dom)) <= 1

\* C9: in dry-run mode no execution path opens a connection to the proxy
\* admin socket, the certificate manager's notification after an obtain
\* included.
C9_DryRunNeverOpensSocket ==
    dryRun => ~socketOpened

\* C10: with NO_TLS the event loop keeps running and never panics when it
\* evaluates the certificate-refresh branch of its select.
C10_NoTLSLoopKeepsRunning ==
    noTLS => loop # "panicked"

NoneIgnored == \A i \in 1..Len(containers) : ~containers[i].Ignore

\* the acl lines of a rendered configuration: [app, host]
AclRules ==
    {[app |-> config[k][2], host |-> config[k][Len(config[k])]] :
        k \in {n \in 1..Len(config) : config[n][1] = "\tacl "}}

\* C19: when a host name of one deployment (canonical or alias) is also a
\* host name of another application's deployment, the conflicting deployment
\* is left out: in a rendered configuration each host name is matched by the
\* rules of at most one application.
C19_HostOfOneApplication ==
    (dpc = "rendered" /\ NoneIgnored) =>
        \A r1, r2 \in AclRules : r1.host = r2.host => r1.app = r2.app

\* the deployments of the aggregation in ascending app name order
AppNameOrder == <<"A", "B">>
RECURSIVE SortedByAppName(_)
SortedByAppName(names) ==
    IF names = <<>> THEN <<>>
    ELSE (IF Head(names) \in DOMAIN deploymentsMap
          THEN <<deploymentsMap[Head(names)]>> ELSE <<>>)
         \o SortedByAppName(Tail(names))

\* C20: the configuration rendered from a set of running containers is the
\* same on every run: the deployments are emitted in ascending app name
\* order, the aliases in descriptor order.
C20_RenderDeterministic ==
    (dpc = "rendered" /\ NoneIgnored) => config = CreateConfig(SortedByAppName(AppNameOrder))

\* C12: ExecuteBlueGreen maps a domain to the new backend only after the
\* health check of the new container succeeded (the step that maps it is the
\* switch step of that container's deployment), and a deployment whose health
\* checks all fail returns its error leaving every domain mapping as it was.
C12_MappingOnlyAfterHealthy ==
    [][/\ \A dom \in ManagedDomains :
            (hostsMap'[dom] # hostsMap[dom] /\ hostsMap'[dom] # NoBackend) =>
                \E c \in MonContainers :
                    /\ bg[c].pc = "switch"
                    /\ hostsMap'[dom] = NewBackend(c)
       /\ \A c \in MonContainers :
            (bg[c].pc = "health" /\ bg'[c].pc = "failed") =>
                hostsMap' = hostsMap]_vars

\* checkRenewals reaches `dom` in its loop over the snapshot of m.domains
Visits(dom) ==
    /\ ex[RenewalLoop].pc = "check"
    /\ dom \in rqueue
    /\ rqueue' = rqueue \ {dom}
\* and calls obtainCertificate (directly or through renewCertificate) for it
InvokesObtain(dom) == ex'[RenewalLoop] = [domain |-> dom, pc |-> "acme"]

\* C13: for each domain a renewal pass visits, obtainCertificate is invoked
\* exactly when <domain>.crt does not exist, or it exists and its NotAfter is
\* less than 30 days away; with 30 days or more left nothing is requested.
\* (Visits during which another goroutine is writing the files are left out.)
C13_ObtainIffMissingOrExpiring ==
    [][\A dom \in ManagedDomains :
          (Visits(dom) /\ InFlight(dom) = {}) =>
              (InvokesObtain(dom) <=>
                  \/ "crt" \notin certFiles[dom]
                  \/ daysLeft[dom] < RenewalThreshold)]_vars

\* C14: when the latest obtainCertificate of a domain failed at any step (the
\* ACME request, one of the three writes, the notification), the next renewal
\* pass that visits the still managed domain invokes obtainCertificate again.
C14_FailedObtainRetried ==
    [][\A dom \in ManagedDomains :
          (Visits(dom) /\ dom \in mDomains /\ lastObtain[dom] = "retry") =>
              InvokesObtain(dom)]_vars

\* C15: with a pass every 24 hours and certificates issued for more than 30
\* days, a managed domain whose latest obtain succeeded has a certificate
\* with at least one day left, also after it was removed and added again.
C15_ManagedCertificateNotExpired ==
    \A dom \in ManagedDomains :
        (dom \in mDomains /\ lastObtain[dom] = "ok") => daysLeft[dom] >= 1

\* C16: at every instant the three files of a domain are of one issuance:
\* .crt, .key and .pem are all there, or none of them is.
C16_FilesOfOneIssuance ==
    \A dom \in ManagedDomains : certFiles[dom] \in {{}, AllFiles}

\* C18: RemoveDomain followed by AddDomain of the same name leaves the files
\* alone: no step deletes a file, the step that removes the domain changes no
\* file, and the goroutine of AddDomain that finds <domain>.crt ends without
\* calling obtainCertificate.
C18_ReAddKeepsFiles ==
    [][/\ \A dom \in ManagedDomains : certFiles[dom] \subseteq certFiles'[dom]
       /\ (mDomains' # mDomains /\ mDomains' \subseteq mDomains) =>
              certFiles' = certFiles
       /\ \A g \in Goroutines :
              (ex[g].pc = "stat" /\ ex'[g] # ex[g]
                   /\ "crt" \in certFiles[ex[g].domain]) => ex'[g] = Free]_vars

\* a domain obtained earlier, removed and added again: its goroutine is about
\* to stat the .crt that is still on disk
C18_Witness ==
    \E g \in Goroutines :
        /\ ex[g].pc = "stat"
        /\ ex[g].domain \in mDomains
        /\ certFiles[ex[g].domain] = AllFiles
        /\ lastObtain[ex[g].domain] = "ok"
        /\ \A e \in Executors : e # g => ex[e].domain # ex[g].domain

\* C17: whenever the watcher has run SyncDomains to its end after the last
\* start event, death event or refresh tick (no sync is pending or at work),
\* the manager's managed set is the set of canonical domains the registered
\* containers advertise.
C17_ManagedSetFollowsContainers ==
    (domainWatcher # "nil" /\ sync.pc = "idle" /\ ~syncPending) =>
        mDomains = GetAllDomains

\* container c exits while another running container is an instance of the
\* same deployment of the same application
DiesBesideInstance(c) ==
    /\ cstate[c] = "running"
    /\ cstate'[c] = "exited"
    /\ \E other \in MonContainers \ {c} :
          /\ cstate[other] = "running"
          /\ NewBackend(other) = NewBackend(c)

\* C21: the death of one container of a deployment that still has a running
\* instance leaves the deployment's backend and every host mapping in the
\* proxy as they were.
C21_BackendKeptWhileInstanceRuns ==
    [][\A c \in MonContainers :
          DiesBesideInstance(c) =>
              (hostsMap' = hostsMap /\ backends' = backends)]_vars

\* the inspected containers of the previous generations, newest first
PreviousNewestFirst ==
    SortNewestFirst(
        SelectSeq(pruneInfos, LAMBDA c : c.ID # TruncateID(newContainerID)))
\* those beyond the keepCount newest of them
BeyondKept ==
    {PreviousNewestFirst[k].ID :
        k \in (keepCount + 1)..Len(PreviousNewestFirst)}

\* C22: PruneOldContainers never has the newly deployed container among its
\* old containers, and when it returns `docker rm` was run on exactly the
\* previous containers beyond the keepCount with the greatest deployment IDs.
C22_PruneKeepsNewAndKeepCount ==
    /\ \A k \in 1..Len(oldContainers) :
          oldContainers[k].ID # TruncateID(newContainerID)
    /\ ppc = "done" => rmTried = BeyondKept

\* C23: while and after copyConfigTemplateFiles publishes haproxy.cfg, also
\* when the writer is killed between two system calls, the file on disk is
\* either the complete previous configuration or the complete new one.
C23_LiveConfigNeverPartial ==
    haproxyCfgOnDisk \in {preHAProxyCfg, HAProxyConfigSections}

\* the blue-green goroutines that sent their first command to the proxy and
\* have further commands to send
SendingBlueGreen ==
    {c \in MonContainers :
        bg[c].pc \in {"configure", "health", "switch", "drain", "remove"}}

\* the death handler of container c changed the proxy with RemoveBackend
DeathRemoves(c) ==
    /\ cstate[c] = "running"
    /\ cstate'[c] = "exited"
    /\ (hostsMap' # hostsMap \/ backends' # backends)

\* C24: at any instant at most one operation is sending commands to the
\* proxy: no two ExecuteBlueGreen calls are under way together, and the
\* RemoveBackend of a death event does not run while an ExecuteBlueGreen is
\* under way.
C24_OneProxyWriterAtATime ==
    [][/\ Cardinality(SendingBlueGreen') <= 1
       /\ \A c \in MonContainers :
             DeathRemoves(c) => SendingBlueGreen = {}]_vars

\* the blue-green of c's start event sent a command and has neither updated
\* the registry nor failed
BlueGreenUnderWay(c) ==
    bg[c].pc \in {"configure", "health", "switch", "drain", "remove", "returned"}

\* C25: of two start events of one application the loop delivers one first,
\* and the proxy commands and the registry update of that one all happen
\* before those of the other: the two blue-green runs are never both between
\* their first command and their registry update.
C25_StartEventsInOrder ==
    \A c1, c2 \in MonContainers :
        (c1 # c2 /\ AppOf(c1) = AppOf(c2))
            => ~(BlueGreenUnderWay(c1) /\ BlueGreenUnderWay(c2))

\* the errs case of the select received err and sent it to errorsChan
ReceivesError(err) ==
    /\ listenPc = "select"
    /\ errorsChan' = Append(errorsChan, err)

\* C26: when the subscription reports EOF or "connection refused" the
\* listener goes on to wait and resubscribe; an error of any other kind makes
\* it return.
C26_ReconnectsOnConnectionLoss ==
    [][\A err \in EventErrors \ {"nil"} :
          ReceivesError(err) =>
              IF err \in {"EOF", "connection refused"}
              THEN listenPc' = "sleep"
              ELSE listenPc' = "returned"]_vars

\* a step of the loop that rewrote host mappings while no container event
\* was handled: the refresh tick
RefreshRemaps(dom) ==
    /\ cstate' = cstate
    /\ hostsMap'[dom] # hostsMap[dom]

\* C27: a periodic refresh never points a host at the backend of a
\* deployment that is older than a running deployment of the same
\* application.
C27_RefreshKeepsNewestDeployment ==
    [][\A dom \in ManagedDomains :
          RefreshRemaps(dom) =>
              ~\E c \in Running :
                  /\ AppOf(c) = hostsMap'[dom].app
                  /\ LexLess(hostsMap'[dom].did, DeploymentOf(c))]_vars

\* the start event of c was handled: its backend is configured and mapped
StartHandled(c) ==
    /\ cstate[c] = "running"
    /\ NewBackend(c) \in backends
    /\ hostsMap[DomainOf(c)] = NewBackend(c)

SingleInstance(c) ==
    \A other \in MonContainers \ {c} :
        cstate[other] = "running" => NewBackend(other) # NewBackend(c)

\* the death handler of c runs and leaves the proxy without c's backend and
\* without a mapping to it
DeathCleansUp(c) ==
    /\ DieEvent(c)
    /\ backends' = backends \ {NewBackend(c)}
    /\ hostsMap'[DomainOf(c)] = NoBackend

\* C28: for a single-instance deployment whose start event was handled, the
\* death handler, when its inspect and its commands succeed, removes exactly
\* the backend the start handler configured, and its host mapping.
C28_DeathRemovesStartedBackend ==
    \A c \in MonContainers :
        (loop = "running" /\ SelectEnters /\ StartHandled(c) /\ SingleInstance(c))
            => ENABLED DeathCleansUp(c)

\* C29: the labels runContainer attaches for a validated app configuration
\* are accepted by ParseContainerLabels, which yields the app name, the
\* deployment ID and the domains of the configuration.
C29_DeployerLabelsAccepted ==
    /\ lpc # "error"
    /\ lpc = "parsed" =>
          /\ cl.AppName = d.AppName
          /\ cl.DeploymentID = d.DeploymentID
          /\ cl.Domains = d.Domains

\* SyncDomains reads the provider
ReadsProvider == sync.pc = "idle" /\ sync'.pc = "add"

\* RemoveContainer(c) while another container of the provider advertises
\* the canonical domain of c
RemovedBesideAdvertiser(c) ==
    /\ c \in providerContainers
    /\ c \notin providerContainers'
    /\ \E other \in providerContainers' : DomainOf(other) = DomainOf(c)

\* SyncDomains calls manager.RemoveDomain(dom)
CallsRemoveDomain(dom) ==
    /\ sync.pc = "remove"
    /\ dom \in sync.todo
    /\ dom \notin sync'.todo

Obtaining == {e \in Executors : ex[e].pc \in ObtainPcs}

\* the renewal loop takes the ticker case and starts a pass
RenewalPassStarts ==
    /\ ex[RenewalLoop].pc = "wait"
    /\ ex'[RenewalLoop].pc = "check"

\* C31: once Stop has returned no obtainCertificate of the manager is
\* running, and no renewal pass starts.
C31_StopLeavesNothingRunning ==
    [][mCancelled' => (Obtaining' = {} /\ (mCancelled => ~RenewalPassStarts))]_vars

\* C32: every call of SendCommand terminates: a call that has not returned
\* can take its next step, whatever the peer of the socket does.
C32_SendCommandTerminates ==
    sendPc \in {"idle", "returned"} \/ ENABLED SendNext

\* the lines of the rendered text that belong to the :80 frontend: those
\* after the "frontend http-in" line
InHttpFrontend(i) ==
    \E s \in 1..(i - 1) : config[s] = <<"frontend http-in">>

IsRedirectLine(line) ==
    Head(line) = "\thttp-request redirect code 301 location https://"

IsACMERouteLine(line) ==
    line = <<"    use_backend acme_challenge if is_acme_challenge">>

\* C33: in the rendered HTTP frontend the rule routing the ACME challenge
\* path to the acme_challenge backend comes before every per-host 301
\* redirect rule.
C33_ACMERouteBeforeRedirects ==
    dpc = "rendered" =>
        \A i \in 1..Len(config) :
            (InHttpFrontend(i) /\ IsRedirectLine(config[i])) =>
                \E j \in 1..(i - 1) :
                    InHttpFrontend(j) /\ IsACMERouteLine(config[j])

\* C34: every descriptor ParseContainerLabels returns has a non-empty
\* canonical host for each of its domains; labels with an alias key for an
\* index that has no non-empty canonical label are rejected.
C34_ParsedDomainsHaveCanonical ==
    lpc = "parsed" =>
        \A k \in 1..Len(cl.Domains) : cl.Domains[k].Canonical # ""

\* C35: LoadOrCreateKey never overwrites or deletes an account key that is
\* on disk: once the file holds a key, it holds that key after every step
\* of every call.
C35_AccountKeyNeverReplaced ==
    [][(keyOnDisk.key \in AccountKeys) => (keyOnDisk' = keyOnDisk)]_vars

\* the goroutines that hold Manager.domainMutex, for reading or writing
ManagerLockHolders == managerMutex.r \cup managerMutex.w

\* C36: no goroutine holds the manager's domain lock while it is inside
\* obtainCertificate (ACME request, certificate file writes, proxy socket
\* call), and whoever holds the lock can take its next step at once, however
\* many obtains are in flight: AddDomain and RemoveDomain never wait for one.
C36_NoBlockingUnderDomainLock ==
    \A t \in ManagerLockHolders :
        /\ lk[t].pc # "obtain"
        /\ ENABLED LockStep(t)

\* AddDomain holds the lock while checkRenewals and a goroutine started by
\* an earlier AddDomain are both obtaining a certificate
C36_Witness ==
    /\ obtainGoroutines > 0
    /\ \E t, u \in LockThreads :
          /\ lk[t].pc = "mBody" /\ lk[t].call = "AddDomain"
          /\ t \in managerMutex.w
          /\ lk[u].pc = "obtain"

\* C37: under a fair scheduler every operation that was started (SyncDomains,
\* AddContainer, RemoveContainer, checkRenewals, with the AddDomain and
\* RemoveDomain calls inside SyncDomains) returns, and a goroutine that has
\* returned holds no lock: no interleaving ends in a deadlock.
C37_LockedOperationsTerminate ==
    /\ \A t \in LockThreads : (lk[t].pc # "idle") ~> (lk[t].pc = "idle")
    /\ [](\A t \in LockThreads :
            lk[t].pc = "idle" =>
                /\ t \notin watcherMutex
                /\ t \notin containerMutex.a \cup containerMutex.w
                         \cup containerMutex.r \cup containerMutex.q
                /\ t \notin managerMutex.a \cup managerMutex.w
                         \cup managerMutex.r \cup managerMutex.q)

\* SyncDomains holds the watcher mutex and has announced itself for the
\* manager lock that checkRenewals holds for reading, while another
\* SyncDomains waits for the watcher mutex
C37_Witness ==
    \E t, u, v \in LockThreads :
        /\ t \in watcherMutex /\ managerMutex.a = {t}
        /\ u \in managerMutex.r
        /\ lk[v].pc = "dwLock"

\* C38: deploymentRegistry[A] changes only in the step that follows a nil
\* return of ExecuteBlueGreen for a container of A, and then to that
\* container's deployment ID; a goroutine whose ExecuteBlueGreen returned an
\* error (backend configuration, health check, cancellation in the drain
\* wait) stays where it is and leaves the registry as it was.
C38_RegistrySetOnlyOnSuccess ==
    [][/\ \A a \in AppNames :
             (deploymentRegistry'[a] # deploymentRegistry[a]) =>
                 \E c \in MonContainers :
                     /\ AppOf(c) = a
                     /\ bg[c].pc = "returned" /\ bg'[c].pc = "done"
                     /\ deploymentRegistry'[a] = DeploymentOf(c)
       /\ \A c \in MonContainers :
             (bg[c].pc # "failed" /\ bg'[c].pc = "failed") =>
                 deploymentRegistry' = deploymentRegistry
       /\ \A c \in MonContainers :
             (bg[c].pc = "failed") => (bg'[c] = bg[c])]_vars

\* deployment 1 of A is registered after its success while the goroutine of
\* deployment 2 of A has failed
C38_Witness ==
    \E c, f \in MonContainers :
        /\ AppOf(c) = AppOf(f)
        /\ bg[c].pc = "done" /\ bg[f].pc = "failed"
        /\ DeploymentOf(f) # DeploymentOf(c)
        /\ deploymentRegistry[AppOf(c)] = DeploymentOf(c)

\* what a step takes away from the proxy: backends, and host mappings
BackendsRemoved == backends \ backends'
Unmapped ==
    {hostsMap[dom] : dom \in {x \in ManagedDomains : hostsMap'[x] = NoBackend}}
        \ {NoBackend}

\* C39: a step of the blue-green goroutine of container c removes a backend
\* other than c's own only in step 5 (position "remove"), that backend is the
\* one of the deployment ID found in step 1, which is non-empty and differs
\* from c's; "remove" is entered only from the drain wait and the drain wait
\* only from the switch, with such a deployment ID found; a goroutine that leaves the drain wait with the
\* context error removes nothing, then or later.
C39_OldBackendRemovedLast ==
    [][\A c \in MonContainers :
          (bg'[c] # bg[c]) =>
              /\ \A b \in (BackendsRemoved \cup Unmapped) \ {NewBackend(c)} :
                    /\ bg[c].pc = "remove"
                    /\ b = Backend(AppOf(c), bg[c].old)
                    /\ bg[c].old # NoDeployment
                    /\ bg[c].old # DeploymentOf(c)
              /\ (bg'[c].pc = "remove") => (bg[c].pc = "drain")
              /\ (bg'[c].pc = "drain") =>
                    /\ bg[c].pc = "switch"
                    /\ bg[c].old # NoDeployment
                    /\ bg[c].old # DeploymentOf(c)
              /\ (bg[c].pc = "drain" /\ bg'[c].pc = "failed") =>
                    (backends' = backends /\ hostsMap' = hostsMap)
              /\ (bg[c].pc = "drain") => (bg'[c].pc \in {"remove", "failed"})]_vars

\* deployment 2 of A has replaced deployment 1: its ExecuteBlueGreen found
\* deployment 1, returned, and A-1 is gone while A-2 is configured
C39_Witness ==
    \E c \in MonContainers :
        /\ bg[c].pc \in {"returned", "done"}
        /\ bg[c].old # NoDeployment /\ bg[c].old # DeploymentOf(c)
        /\ Backend(AppOf(c), bg[c].old) \notin backends
        /\ NewBackend(c) \in backends
        /\ hostsMap[DomainOf(c)] = NewBackend(c)

\* C40: whenever the event loop is about to take an iteration, a non-nil
\* certManager comes with a non-nil domainWatcher, so the SyncDomains call of
\* the certRefreshTicker case has a watcher to call.
C40_ManagerImpliesWatcher ==
    (loop = "running" /\ certManager # "nil") => domainWatcher # "nil"

\* the manager runs, the watcher is set and has synchronised a domain
C40_Witness ==
    /\ loop = "running"
    /\ ~noTLS
    /\ certManager = "started"
    /\ domainWatcher = "set"
    /\ knownDomains # {}

====
